---------------------------- MODULE Spec2Model ----------------------------
(***************************************************************************)
(* A model of src/src/lexer.cpp: the Kaleidoscope read-evaluate-print      *)
(* frontend (lexer, operator-precedence parser, lowering to IR, JIT        *)
(* driver).                                                                *)
(*                                                                         *)
(* Three specifications share the module:                                  *)
(*   SpecLex  the lexer gettok() run over a bounded character stream;      *)
(*   SpecFor  the code emitted for a For expression, run block by block;   *)
(*   Spec     the driver MainLoop() over a stream of token lines.          *)
(*                                                                         *)
(* Doubles are modelled by exact rationals <<n, d>> (d > 0, lowest terms). *)
(* The inputs of the model only produce values that a double holds         *)
(* exactly.  `char' is taken to be signed, as on the x86-64 and Apple      *)
(* targets of the repository, so that the EOF that getchar() returns       *)
(* compares equal to EOF after its conversion to char; the input is ASCII  *)
(* (spec section 6).                                                       *)
(***************************************************************************)
EXTENDS Integers, Sequences, FiniteSets, TLC

VARIABLES
    \* ---- lexer (SpecLex)
    LastChar,   \* gettok's static char LastChar
    chars,      \* the characters getchar() has not returned yet
    source,     \* the whole character stream (never changes)
    toks,       \* the tokens gettok() has returned so far
    \* ---- the code of a For expression (SpecFor)
    forS,       \* the start value of the loop
    forN,       \* the bound of the loop
    forPc,      \* the block control is in: "entry", "loop" or "after"
    forSt,      \* the run state: stack cells and the calls of printd
    \* ---- driver (Spec)
    CurTok,             \* the parser's current token
    input,              \* the tokens of the line read that follow CurTok
    fed,                \* number of lines read from the stream
    BinopPrecedence,    \* character -> precedence
    FunctionProtos,     \* name -> PrototypeAST
    NamedValues,        \* name -> stack cell
    TheModule,          \* name -> function of the module being built
    TheJIT,             \* the modules the JIT holds
    status,             \* "start", "running", "exited", "crashed", "fatal", "hung"
    defs,               \* the modules HandleDefinition handed to the JIT
    acceptedOps,        \* the operators whose latest def binary was accepted
    last                \* what the last step of the driver did

lexVars == <<LastChar, chars, source, toks>>

forVars == <<forS, forN, forPc, forSt>>

driverVars == <<CurTok, input, fed, BinopPrecedence, FunctionProtos, NamedValues,
                TheModule, TheJIT, status, defs, acceptedOps, last>>

vars == <<lexVars, forVars, driverVars>>

(***************************************************************************)
(* Bounds of the model.                                                    *)
(***************************************************************************)
MaxLen == 4         \* longest character stream of SpecLex

MaxN == 5           \* largest start value and bound of the loop of SpecFor

MaxItems == 3       \* lines the driver reads from the stream

MaxFuel == 8        \* calls and loop iterations followed in one evaluation

(***************************************************************************)
(* Doubles as rationals.                                                   *)
(***************************************************************************)
RECURSIVE Gcd(_, _)
Gcd(a, b) == IF b = 0 THEN a ELSE Gcd(b, a % b)

Abs(a) == IF a < 0 THEN -a ELSE a

Norm(n, d) ==
    LET g == Gcd(Abs(n), d) IN IF g = 0 THEN <<0, 1>> ELSE <<n \div g, d \div g>>

Dbl(k) == <<k, 1>>

(***************************************************************************)
(* Tokens.  t is the token kind: one of the tok_ enumerators, or "op" for  *)
(* a character returned as its own code; s is IdentifierStr (t = "id") or  *)
(* the character (t = "op"); n is NumVal (t = "num").                      *)
(***************************************************************************)
Tk(t, s, n) == [t |-> t, s |-> s, n |-> n]

tok_eof == Tk("eof", "", Dbl(0))

Kw(w) == Tk(w, "", Dbl(0))

Id(name) == Tk("id", name, Dbl(0))

NumTok(v) == Tk("num", "", v)

Num(k) == NumTok(Dbl(k))

Op(c) == Tk("op", c, Dbl(0))

Keywords == {"def", "extern", "if", "then", "else", "for", "in", "binary",
             "unary", "var"}

(***************************************************************************)
(* The lexer.                                                              *)
(***************************************************************************)
EOFc == "EOF"       \* the value getchar() returns at the end of the stream

AlphaChars == {"a", "b", "c", "d", "e", "f", "g", "h", "i", "j", "k", "l", "m",
               "n", "o", "p", "q", "r", "s", "t", "u", "v", "w", "x", "y", "z"}

DigitChars == {"0", "1", "2", "3", "4", "5", "6", "7", "8", "9"}

isspace(c) == c \in {" ", "\t", "\n", "\r"}

isalpha(c) == c \in AlphaChars

isdigit(c) == c \in DigitChars

isalnum(c) == isalpha(c) \/ isdigit(c)

DigitVal(c) ==
    CASE c = "0" -> 0 [] c = "1" -> 1 [] c = "2" -> 2 [] c = "3" -> 3
      [] c = "4" -> 4 [] c = "5" -> 5 [] c = "6" -> 6 [] c = "7" -> 7
      [] c = "8" -> 8 [] OTHER -> 9

\* getchar(): the next character, or EOF for good once the stream is empty.
DebugGetChar(cs) ==
    IF cs = <<>> THEN [c |-> EOFc, cs |-> <<>>]
    ELSE [c |-> Head(cs), cs |-> Tail(cs)]

RECURSIVE DigitsToNat(_)
DigitsToNat(ds) ==
    IF ds = <<>> THEN 0
    ELSE 10 * DigitsToNat(SubSeq(ds, 1, Len(ds) - 1)) + DigitVal(ds[Len(ds)])

RECURSIVE Pow10(_)
Pow10(k) == IF k = 0 THEN 1 ELSE 10 * Pow10(k - 1)

RECURSIVE LeadingDigits(_)
LeadingDigits(str) ==
    IF str # <<>> /\ isdigit(Head(str))
    THEN <<Head(str)>> \o LeadingDigits(Tail(str)) ELSE <<>>

\* strtod(NumStr, 0) on a string of digits and dots: the value of the longest
\* prefix that is a decimal number, 0 when there is none.
Strtod(NumStr) ==
    LET ip   == LeadingDigits(NumStr)
        rest == SubSeq(NumStr, Len(ip) + 1, Len(NumStr))
        fp   == IF rest # <<>> /\ Head(rest) = "."
                THEN LeadingDigits(Tail(rest)) ELSE <<>>
    IN  Norm(DigitsToNat(ip \o fp), Pow10(Len(fp)))

\* while (isspace(LastChar)) LastChar = getchar();
RECURSIVE SkipSpace(_)
SkipSpace(ls) ==
    IF isspace(ls.LastChar)
    THEN LET g == DebugGetChar(ls.chars)
         IN  SkipSpace([LastChar |-> g.c, chars |-> g.cs])
    ELSE ls

\* while (isalnum(LastChar = getchar())) IdentifierStr += LastChar;
RECURSIVE ReadIdentifier(_, _)
ReadIdentifier(IdentifierStr, cs) ==
    LET g == DebugGetChar(cs)
    IN  IF isalnum(g.c) THEN ReadIdentifier(IdentifierStr \o g.c, g.cs)
        ELSE [str |-> IdentifierStr, LastChar |-> g.c, chars |-> g.cs]

\* do { NumStr += LastChar; LastChar = getchar(); }
\* while (isdigit(LastChar) || LastChar == '.');
RECURSIVE ReadNumber(_, _, _)
ReadNumber(NumStr, c, cs) ==
    LET g == DebugGetChar(cs)
        s == Append(NumStr, c)
    IN  IF isdigit(g.c) \/ g.c = "." THEN ReadNumber(s, g.c, g.cs)
        ELSE [str |-> s, LastChar |-> g.c, chars |-> g.cs]

\* A comment whose skipping stops at a line feed only.
RECURSIVE SkipCommentLFOnly(_)
SkipCommentLFOnly(cs) ==
    LET g == DebugGetChar(cs)
    IN  IF g.c # EOFc /\ g.c # "\n" THEN SkipCommentLFOnly(g.cs)
        ELSE [LastChar |-> g.c, chars |-> g.cs]

\* do LastChar = getchar();
\* while (LastChar != EOF && LastChar != '\n' && LastChar != '\r');
RECURSIVE SkipComment(_)
SkipComment(cs) ==
    LET g == DebugGetChar(cs)
    IN  IF g.c # EOFc /\ g.c # "\n" /\ g.c # "\r" THEN SkipComment(g.cs)
        ELSE [LastChar |-> g.c, chars |-> g.cs]

\* One call of gettok() from the lexer state ls = [LastChar, chars]: the
\* token returned and the lexer state it leaves.
RECURSIVE gettok(_)
gettok(ls) ==
    LET l1 == SkipSpace(ls)
        c  == l1.LastChar
    IN  IF isalpha(c) THEN
            LET r == ReadIdentifier(c, l1.chars)
            IN  [tok |-> IF r.str \in Keywords THEN Kw(r.str) ELSE Id(r.str),
                 LastChar |-> r.LastChar, chars |-> r.chars]
        ELSE IF isdigit(c) \/ c = "." THEN
            LET r == ReadNumber(<<>>, c, l1.chars)
            IN  [tok |-> NumTok(Strtod(r.str)),
                 LastChar |-> r.LastChar, chars |-> r.chars]
        ELSE IF c = "#" /\ SkipComment(l1.chars).LastChar # EOFc THEN
            gettok(SkipComment(l1.chars))
        ELSE IF c = EOFc \/ c = "#" THEN
            \* the end of the stream, possibly at the end of a comment
            [tok |-> tok_eof, LastChar |-> EOFc, chars |-> <<>>]
        ELSE
            LET g == DebugGetChar(l1.chars)
            IN  [tok |-> Op(c), LastChar |-> g.c, chars |-> g.cs]

\* The tokens that successive calls of gettok() return from lexer state ls,
\* up to and including the first tok_eof.
RECURSIVE LexFrom(_)
LexFrom(ls) ==
    LET r == gettok(ls)
    IN  IF r.tok.t = "eof" THEN <<r.tok>>
        ELSE <<r.tok>> \o LexFrom([LastChar |-> r.LastChar, chars |-> r.chars])

\* static char LastChar = ' ';
Lex(cs) == LexFrom([LastChar |-> " ", chars |-> cs])

(***************************************************************************)
(* SpecLex: gettok() called until it returns tok_eof, on every character   *)
(* stream of at most MaxLen characters of LexChars.                        *)
(***************************************************************************)
LexChars == {"i", "n", "1", ".", " ", "\n", "\r", "#", "+"}

RECURSIVE SeqsUpTo(_, _)
SeqsUpTo(S, k) ==
    IF k = 0 THEN {<<>>}
    ELSE LET shorter == SeqsUpTo(S, k - 1)
         IN  shorter \cup {Append(q, c) : q \in shorter, c \in S}

LexInit ==
    /\ source \in SeqsUpTo(LexChars, MaxLen)
    /\ chars = source
    /\ LastChar = " "
    /\ toks = <<>>
    /\ forS = 0 /\ forN = 0 /\ forPc = "idle" /\ forSt = <<>>
    /\ CurTok = tok_eof /\ input = <<>> /\ fed = 0
    /\ BinopPrecedence = <<>> /\ FunctionProtos = <<>> /\ NamedValues = <<>>
    /\ TheModule = <<>> /\ TheJIT = <<>> /\ status = "idle" /\ defs = <<>>
    /\ acceptedOps = {}
    /\ last = <<>>

LexDone == toks # <<>> /\ toks[Len(toks)].t = "eof"

LexGetTok ==
    /\ ~LexDone
    /\ LET r == gettok([LastChar |-> LastChar, chars |-> chars])
       IN  /\ toks' = Append(toks, r.tok)
           /\ LastChar' = r.LastChar
           /\ chars' = r.chars
    /\ UNCHANGED <<source, forVars, driverVars>>

LexNext == LexGetTok

SpecLex == LexInit /\ [][LexNext]_vars

(***************************************************************************)
(* The AST.  A null unique_ptr is NullAST.                                 *)
(***************************************************************************)
NullAST == [k |-> "null"]

NumberExprAST(Val) == [k |-> "Number", Val |-> Val]

VariableExprAST(Name) == [k |-> "Variable", Name |-> Name]

UnaryExprAST(Opcode, Operand) ==
    [k |-> "Unary", Opcode |-> Opcode, Operand |-> Operand]

BinaryExprAST(BinOp, LHS, RHS) ==
    [k |-> "Binary", Op |-> BinOp, LHS |-> LHS, RHS |-> RHS]

CallExprAST(Callee, Args) == [k |-> "Call", Callee |-> Callee, Args |-> Args]

IfExprAST(Cond, Then, Else) ==
    [k |-> "If", Cond |-> Cond, Then |-> Then, Else |-> Else]

\* Step is NullAST when the source gives no step.
ForExprAST(VarName, Start, End, Step, Body) ==
    [k |-> "For", VarName |-> VarName, Start |-> Start, End |-> End,
     Step |-> Step, Body |-> Body]

\* VarNames is a sequence of <<name, initializer or NullAST>>.
VarExprAST(VarNames, Body) ==
    [k |-> "Var", VarNames |-> VarNames, Body |-> Body]

\* OpChar is the last character of Name, which getOperatorName() returns.
PrototypeAST(Name, Args, IsOperator, Precedence, OpChar) ==
    [k |-> "Prototype", Name |-> Name, Args |-> Args,
     IsOperator |-> IsOperator, Precedence |-> Precedence, OpChar |-> OpChar]

FunctionAST(Proto, Body) == [k |-> "Function", Proto |-> Proto, Body |-> Body]

isUnaryOp(P) == P.IsOperator /\ Len(P.Args) = 1

isBinaryOp(P) == P.IsOperator /\ Len(P.Args) = 2

getOperatorName(P) == P.OpChar

(***************************************************************************)
(* The parser.  The token stream is the sequence tks; a parser state ps    *)
(* holds pos (CurTok is tks[pos], tok_eof past the end), bp (the operator  *)
(* table BinopPrecedence, which GetTokPrecedence grows), errs (the lines   *)
(* LogError printed) and rec (the recursive calls of ParseBinOpRHS).  Each *)
(* Parse operator returns [ast, ps].  Where the code goes on from the      *)
(* return value V of a call, the rest of the function is a local operator  *)
(* H and the function is CHOOSE Ret \in {H(V) : V \in {call}} : TRUE, which *)
(* is H of the value of the call, the call being evaluated once.           *)
(***************************************************************************)
CurTokAt(tks, ps) == IF ps.pos <= Len(tks) THEN tks[ps.pos] ELSE tok_eof

\* CurTok = gettok(): past the end of the stream gettok keeps returning
\* tok_eof.
getNextToken(tks, ps) ==
    IF ps.pos <= Len(tks) THEN [ps EXCEPT !.pos = @ + 1] ELSE ps

isascii(tok) == tok.t = "op"

IsChar(tok, c) == tok.t = "op" /\ tok.s = c

\* GetTokPrecedence without if (TokPrec <= 0) return -1: a character the
\* table does not hold, or holds with 0, has precedence 0.
GetTokPrecedence_ZeroCounts(tok, bp) ==
    IF ~isascii(tok) THEN -1
    ELSE IF tok.s \in DOMAIN bp THEN bp[tok.s] ELSE 0

GetTokPrecedence(tok, bp) ==
    IF ~isascii(tok) THEN -1
    ELSE IF tok.s \in DOMAIN bp /\ bp[tok.s] > 0 THEN bp[tok.s] ELSE -1

\* BinopPrecedence[CurTok] is std::map::operator[]: it inserts a 0 entry for
\* a character the table does not hold.
TouchPrecedence(tok, bp) ==
    IF isascii(tok) /\ tok.s \notin DOMAIN bp THEN bp @@ (tok.s :> 0) ELSE bp

LogError(ps, Str) ==
    [ast |-> NullAST, ps |-> [ps EXCEPT !.errs = Append(@, Str)]]

\* (unsigned)NumVal for a NumVal in 1..100
ToUnsigned(v) == v[1] \div v[2]

RECURSIVE ParseExpression(_, _), ParseUnary(_, _), ParsePrimary(_, _),
          ParseBinOpRHS(_, _, _, _), ParseCallArgs(_, _, _, _),
          ParseVarNames(_, _, _), ReadArgNames(_, _, _)

ParseNumberExpr(tks, ps) ==
    [ast |-> NumberExprAST(CurTokAt(tks, ps).n), ps |-> getNextToken(tks, ps)]

ParseParenExpr(tks, ps) ==
    LET \* ParseParenExpr from the return of ParseExpression on
        ParseParenExpr_V(V) ==
            IF V.ast = NullAST THEN V
            ELSE IF ~IsChar(CurTokAt(tks, V.ps), ")")
            THEN LogError(V.ps, "expected ')'")
            ELSE [ast |-> V.ast, ps |-> getNextToken(tks, V.ps)]
    IN  CHOOSE Ret \in
            {ParseParenExpr_V(V) :
                V \in {ParseExpression(tks, getNextToken(tks, ps))}} : TRUE

\* The while (1) loop of ParseIdentifierExpr.
ParseCallArgs(tks, IdName, Args, ps) ==
    LET \* One pass of the while (1) loop of ParseIdentifierExpr, from the return of
        \* ParseExpression on.
        ParseCallArgs_Arg(Arg) ==
            IF Arg.ast = NullAST THEN Arg
            ELSE IF IsChar(CurTokAt(tks, Arg.ps), ")")
            THEN [ast |-> CallExprAST(IdName, Append(Args, Arg.ast)),
                  ps |-> getNextToken(tks, Arg.ps)]
            ELSE IF ~IsChar(CurTokAt(tks, Arg.ps), ",")
            THEN LogError(Arg.ps, "Expected ')' or ',' in argument list")
            ELSE ParseCallArgs(tks, IdName, Append(Args, Arg.ast),
                               getNextToken(tks, Arg.ps))
    IN  CHOOSE Ret \in
            {ParseCallArgs_Arg(Arg) :
                Arg \in {ParseExpression(tks, ps)}} : TRUE

ParseIdentifierExpr(tks, ps) ==
    LET IdName == CurTokAt(tks, ps).s
        ps1    == getNextToken(tks, ps)
        ps2    == getNextToken(tks, getNextToken(tks, ps))
    IN  IF ~IsChar(CurTokAt(tks, ps1), "(")
        THEN [ast |-> VariableExprAST(IdName), ps |-> ps1]
        ELSE IF IsChar(CurTokAt(tks, ps2), ")")
        THEN [ast |-> CallExprAST(IdName, <<>>), ps |-> getNextToken(tks, ps2)]
        ELSE ParseCallArgs(tks, IdName, <<>>, ps2)

\* The while (1) loop of ParseVarExpr; CurTok is an identifier.
ParseVarNames(tks, VarNames, ps) ==
    LET \* One pass of the while (1) loop of ParseVarExpr, from the initializer on:
        \* Init is what ParseExpression returned, or a null AST at the token after
        \* the name when there is no '='.
        ParseVarNames_Init(Name, hasInit, Init) ==
            IF hasInit /\ Init.ast = NullAST THEN Init
            ELSE IF ~IsChar(CurTokAt(tks, Init.ps), ",")
            THEN [ast |-> [k |-> "VarNames",
                           list |-> Append(VarNames, <<Name, Init.ast>>)],
                  ps |-> Init.ps]
            ELSE IF CurTokAt(tks, getNextToken(tks, Init.ps)).t # "id"
            THEN LogError(getNextToken(tks, Init.ps),
                          "expected identifier list after var")
            ELSE ParseVarNames(tks, Append(VarNames, <<Name, Init.ast>>),
                               getNextToken(tks, Init.ps))
    IN  IF IsChar(CurTokAt(tks, getNextToken(tks, ps)), "=")
        THEN CHOOSE Ret \in
                 {ParseVarNames_Init(CurTokAt(tks, ps).s, TRUE, Init) :
                     Init \in {ParseExpression(tks,
                                  getNextToken(tks, getNextToken(tks, ps)))}} : TRUE
        ELSE ParseVarNames_Init(CurTokAt(tks, ps).s, FALSE,
                 [ast |-> NullAST, ps |-> getNextToken(tks, ps)])

ParseVarExpr(tks, ps) ==
    LET ParseVarExpr_Body(vn, Body) ==
            IF Body.ast = NullAST THEN Body
            ELSE [ast |-> VarExprAST(vn.ast.list, Body.ast), ps |-> Body.ps]
        ParseVarExpr_Names(vn) ==
            IF vn.ast = NullAST THEN vn
            ELSE IF CurTokAt(tks, vn.ps).t # "in"
            THEN LogError(vn.ps, "expected 'in' keyword after 'var'")
            ELSE CHOOSE Ret \in
                     {ParseVarExpr_Body(vn, Body) :
                         Body \in {ParseExpression(tks, getNextToken(tks, vn.ps))}} : TRUE
    IN  IF CurTokAt(tks, getNextToken(tks, ps)).t # "id"
        THEN LogError(getNextToken(tks, ps), "expected identifier after var")
        ELSE CHOOSE Ret \in
                 {ParseVarExpr_Names(vn) :
                     vn \in {ParseVarNames(tks, <<>>, getNextToken(tks, ps))}} : TRUE

ParseIfExpr(tks, ps) ==
    LET ParseIfExpr_Else(Cond, Then, Else) ==
            IF Else.ast = NullAST THEN Else
            ELSE [ast |-> IfExprAST(Cond.ast, Then.ast, Else.ast), ps |-> Else.ps]
        ParseIfExpr_Then(Cond, Then) ==
            IF Then.ast = NullAST THEN Then
            ELSE IF CurTokAt(tks, Then.ps).t # "else"
            THEN LogError(Then.ps, "expected else")
            ELSE CHOOSE Ret \in
                     {ParseIfExpr_Else(Cond, Then, Else) :
                         Else \in {ParseExpression(tks, getNextToken(tks, Then.ps))}} : TRUE
        ParseIfExpr_Cond(Cond) ==
            IF Cond.ast = NullAST THEN Cond
            ELSE IF CurTokAt(tks, Cond.ps).t # "then"
            THEN LogError(Cond.ps, "expected then")
            ELSE CHOOSE Ret \in
                     {ParseIfExpr_Then(Cond, Then) :
                         Then \in {ParseExpression(tks, getNextToken(tks, Cond.ps))}} : TRUE
    IN  CHOOSE Ret \in
            {ParseIfExpr_Cond(Cond) :
                Cond \in {ParseExpression(tks, getNextToken(tks, ps))}} : TRUE

ParseForExpr(tks, ps) ==
    LET ParseForExpr_Body(IdName, Start, End, Step, Body) ==
            IF Body.ast = NullAST THEN Body
            ELSE [ast |-> ForExprAST(IdName, Start.ast, End.ast, Step.ast, Body.ast),
                  ps |-> Body.ps]
        \* Step is what ParseExpression returned for the step, or a null AST at the
        \* token after the end condition when no ',' follows it.
        ParseForExpr_Step(IdName, Start, End, hasStep, Step) ==
            IF hasStep /\ Step.ast = NullAST THEN Step
            ELSE IF CurTokAt(tks, Step.ps).t # "in"
            THEN LogError(Step.ps, "expected 'in' after for")
            ELSE CHOOSE Ret \in
                     {ParseForExpr_Body(IdName, Start, End, Step, Body) :
                         Body \in {ParseExpression(tks, getNextToken(tks, Step.ps))}} : TRUE
        ParseForExpr_End(IdName, Start, End) ==
            IF End.ast = NullAST THEN End
            ELSE IF IsChar(CurTokAt(tks, End.ps), ",")
            THEN CHOOSE Ret \in
                     {ParseForExpr_Step(IdName, Start, End, TRUE, Step) :
                         Step \in {ParseExpression(tks, getNextToken(tks, End.ps))}} : TRUE
            ELSE ParseForExpr_Step(IdName, Start, End, FALSE,
                                   [ast |-> NullAST, ps |-> End.ps])
        ParseForExpr_Start(IdName, Start) ==
            IF Start.ast = NullAST THEN Start
            ELSE IF ~IsChar(CurTokAt(tks, Start.ps), ",")
            THEN LogError(Start.ps, "expected ',' after for start value")
            ELSE CHOOSE Ret \in
                     {ParseForExpr_End(IdName, Start, End) :
                         End \in {ParseExpression(tks, getNextToken(tks, Start.ps))}} : TRUE
        ps1    == getNextToken(tks, ps)
        IdName == CurTokAt(tks, getNextToken(tks, ps)).s
        ps2    == getNextToken(tks, getNextToken(tks, ps))
    IN  IF CurTokAt(tks, ps1).t # "id"
        THEN LogError(ps1, "expected identifier after for")
        ELSE IF ~IsChar(CurTokAt(tks, ps2), "=")
        THEN LogError(ps2, "expected '=' after for")
        ELSE CHOOSE Ret \in
                 {ParseForExpr_Start(IdName, Start) :
                     Start \in {ParseExpression(tks, getNextToken(tks, ps2))}} : TRUE

ParsePrimary(tks, ps) ==
    LET tok == CurTokAt(tks, ps)
    IN  CASE tok.t = "id"      -> ParseIdentifierExpr(tks, ps)
          [] tok.t = "num"     -> ParseNumberExpr(tks, ps)
          [] IsChar(tok, "(")  -> ParseParenExpr(tks, ps)
          [] tok.t = "if"      -> ParseIfExpr(tks, ps)
          [] tok.t = "for"     -> ParseForExpr(tks, ps)
          [] tok.t = "var"     -> ParseVarExpr(tks, ps)
          [] OTHER -> LogError(ps, "Unknown token when expectinng an expression")

ParseUnary(tks, ps) ==
    LET ParseUnary_Operand(Opc, Operand) ==
            IF Operand.ast # NullAST
            THEN [ast |-> UnaryExprAST(Opc, Operand.ast), ps |-> Operand.ps]
            ELSE Operand
        tok == CurTokAt(tks, ps)
    IN  IF ~isascii(tok) \/ IsChar(tok, "(") \/ IsChar(tok, ",")
        THEN ParsePrimary(tks, ps)
        ELSE CHOOSE Ret \in
                 {ParseUnary_Operand(tok.s, Operand) :
                     Operand \in {ParseUnary(tks, getNextToken(tks, ps))}} : TRUE

\* The minimum precedence of the recursive call taken from the minimum
\* precedence of the caller.
RecursePrecFromExprPrec(ExprPrec, TokPrec) == ExprPrec + 1

\* RHS = ParseBinOpRHS(TokPrec + 1, std::move(RHS));
RecursePrec(ExprPrec, TokPrec) == TokPrec + 1

ParseBinOpRHS(tks, ExprPrec, LHS, ps) ==
    LET \* LHS = make_unique<BinaryExprAST>(BinOp, LHS, RHS), and the loop goes on
        ParseBinOpRHS_Merge(BinOp, RHS) ==
            IF RHS.ast = NullAST THEN RHS
            ELSE ParseBinOpRHS(tks, ExprPrec, BinaryExprAST(BinOp, LHS, RHS.ast), RHS.ps)
        \* One pass of the loop of ParseBinOpRHS from the return of ParseUnary on.
        ParseBinOpRHS_RHS(BinOp, TokPrec, RHS) ==
            LET nxt      == CurTokAt(tks, RHS.ps)
                NextPrec == GetTokPrecedence(CurTokAt(tks, RHS.ps), RHS.ps.bp)
                call     == [ExprPrec |-> ExprPrec, TokPrec |-> TokPrec,
                             NextPrec |-> GetTokPrecedence(CurTokAt(tks, RHS.ps),
                                                           RHS.ps.bp),
                             arg |-> RecursePrec(ExprPrec, TokPrec)]
            IN  IF RHS.ast = NullAST THEN RHS
                ELSE IF TokPrec < NextPrec
                THEN CHOOSE Ret \in
                         {ParseBinOpRHS_Merge(BinOp, RHS1) :
                             RHS1 \in {ParseBinOpRHS(tks,
                                 RecursePrec(ExprPrec, TokPrec), RHS.ast,
                                 [RHS.ps EXCEPT !.bp = TouchPrecedence(nxt, @),
                                                !.rec = Append(@, call)])}} : TRUE
                ELSE ParseBinOpRHS_Merge(BinOp,
                         [ast |-> RHS.ast,
                          ps |-> [RHS.ps EXCEPT !.bp = TouchPrecedence(nxt, @)]])
        tok      == CurTokAt(tks, ps)
        TokPrec  == GetTokPrecedence(CurTokAt(tks, ps), ps.bp)
        ps1      == [ps EXCEPT !.bp = TouchPrecedence(CurTokAt(tks, ps), @)]
    IN  IF TokPrec < ExprPrec THEN [ast |-> LHS, ps |-> ps1]
        ELSE CHOOSE Ret \in
                 {ParseBinOpRHS_RHS(tok.s, TokPrec, RHS) :
                     RHS \in {ParseUnary(tks, getNextToken(tks, ps1))}} : TRUE

ParseExpression(tks, ps) ==
    LET ParseExpression_LHS(LHS) ==
            IF LHS.ast = NullAST THEN LHS
            ELSE ParseBinOpRHS(tks, 0, LHS.ast, LHS.ps)
    IN  CHOOSE Ret \in
            {ParseExpression_LHS(LHS) :
                LHS \in {ParseUnary(tks, ps)}} : TRUE

\* while (getNextToken() == tok_identifier) ArgNames.emplace_back(IdentifierStr);
ReadArgNames(tks, ArgNames, ps) ==
    LET ps1 == getNextToken(tks, ps)
    IN  IF CurTokAt(tks, ps1).t = "id"
        THEN ReadArgNames(tks, Append(ArgNames, CurTokAt(tks, ps1).s), ps1)
        ELSE [ast |-> [k |-> "ArgNames", list |-> ArgNames], ps |-> ps1]

\* The part of ParsePrototype after the switch: the parameter list.
ParsePrototypeArgs(tks, FnName, Kind, OpChar, BinaryPrecedence, ps) ==
    LET ParsePrototypeArgs_Names(an) ==
            IF ~IsChar(CurTokAt(tks, an.ps), ")")
            THEN LogError(an.ps, "Expected ')' in prototype")
            ELSE IF Kind # 0 /\ Len(an.ast.list) # Kind
            THEN LogError(getNextToken(tks, an.ps),
                          "Invalid number of operands for operator")
            ELSE [ast |-> PrototypeAST(FnName, an.ast.list, Kind # 0, BinaryPrecedence,
                                       OpChar),
                  ps |-> getNextToken(tks, an.ps)]
    IN  IF ~IsChar(CurTokAt(tks, ps), "(")
        THEN LogError(ps, "Expected '(' in prototype")
        ELSE CHOOSE Ret \in
                 {ParsePrototypeArgs_Names(an) :
                     an \in {ReadArgNames(tks, <<>>, ps)}} : TRUE

ParsePrototype(tks, ps) ==
    LET \* The switch of ParsePrototype: [FnName, Kind, OpChar, BinaryPrecedence, ps]
        \* for the parameter list, or err, the message LogError prints at ps.
        ParsePrototypeHead ==
            LET tok == CurTokAt(tks, ps)
                ps1 == getNextToken(tks, ps)
                opc == CurTokAt(tks, getNextToken(tks, ps))
                ps2 == getNextToken(tks, getNextToken(tks, ps))
                lit == CurTokAt(tks, getNextToken(tks, getNextToken(tks, ps)))
                Goes(FnName, Kind, OpChar, BinaryPrecedence, p) ==
                    [err |-> "", FnName |-> FnName, Kind |-> Kind, OpChar |-> OpChar,
                     BinaryPrecedence |-> BinaryPrecedence, ps |-> p]
                Fails(Str, p) ==
                    [err |-> Str, FnName |-> "", Kind |-> 0, OpChar |-> "",
                     BinaryPrecedence |-> 0, ps |-> p]
            IN  CASE tok.t = "id" -> Goes(tok.s, 0, "", 30, ps1)
                  [] tok.t = "unary" ->
                       IF ~isascii(opc) THEN Fails("Expected unary operator", ps1)
                       ELSE Goes("unary" \o opc.s, 1, opc.s, 30, ps2)
                  [] tok.t = "binary" ->
                       IF ~isascii(opc) THEN Fails("Expected binary operator", ps1)
                       ELSE IF lit.t # "num"
                       THEN Goes("binary" \o opc.s, 2, opc.s, 30, ps2)
                       ELSE IF lit.n[1] < lit.n[2] \/ lit.n[1] > 100 * lit.n[2]
                       THEN Fails("Invalid precedence: must be 1..100", ps2)
                       ELSE Goes("binary" \o opc.s, 2, opc.s, ToUnsigned(lit.n),
                                 getNextToken(tks, ps2))
                  [] OTHER -> Fails("Expected function name in prototype", ps)
        ParsePrototype_Head(h) ==
            IF h.err # "" THEN LogError(h.ps, h.err)
            ELSE ParsePrototypeArgs(tks, h.FnName, h.Kind, h.OpChar,
                                    h.BinaryPrecedence, h.ps)
    IN  ParsePrototype_Head(ParsePrototypeHead)

ParseDefinition(tks, ps) ==
    LET ParseDefinition_Body(Proto, E) ==
            IF E.ast = NullAST THEN E
            ELSE [ast |-> FunctionAST(Proto.ast, E.ast), ps |-> E.ps]
        ParseDefinition_Proto(Proto) ==
            IF Proto.ast = NullAST THEN Proto
            ELSE CHOOSE Ret \in
                     {ParseDefinition_Body(Proto, E) :
                         E \in {ParseExpression(tks, Proto.ps)}} : TRUE
    IN  CHOOSE Ret \in
            {ParseDefinition_Proto(Proto) :
                Proto \in {ParsePrototype(tks, getNextToken(tks, ps))}} : TRUE

ParseExtern(tks, ps) == ParsePrototype(tks, getNextToken(tks, ps))

ParseTopLevelExpr(tks, ps) ==
    LET ParseTopLevelExpr_E(E) ==
            IF E.ast = NullAST THEN E
            ELSE [ast |-> FunctionAST(PrototypeAST("__anon_expr", <<>>, FALSE, 0, ""),
                                      E.ast),
                  ps |-> E.ps]
    IN  CHOOSE Ret \in
            {ParseTopLevelExpr_E(E) :
                E \in {ParseExpression(tks, ps)}} : TRUE

(***************************************************************************)
(* Lowering.  The IR that codegen() emits is kept as a tree whose          *)
(* evaluation order is the order of emission:                              *)
(*   const v | load cell | store cell val | fop op L R | call f args       *)
(*   | if c t e | for cell start body step end | var inits body.           *)
(* A null Value pointer is NullValue.  A stack cell (an AllocaInst) is a   *)
(* positive number, unique in its function; 0 is the null pointer.         *)
(*                                                                         *)
(* A lowering state cs holds nv (NamedValues), mod (TheModule: function    *)
(* name -> [Args, body], body NullValue for a declaration), next (the      *)
(* number of allocas of the current function), errs (the lines LogErrorV   *)
(* printed), stores (the number of store instructions emitted), scopes     *)
(* (NamedValues before and after each For and Var that was lowered) and    *)
(* crash (the process has died).  env holds fp (FunctionProtos, which does *)
(* not change while an expression is lowered) and ub (what the read        *)
(* through a pointer of the wrong type does, see BinaryExprAST_codegen).   *)
(***************************************************************************)
NullValue == [k |-> "nullptr"]

ConstantFP(v) == [k |-> "const", v |-> v]

HostSymbols == {"printd", "putchard"}

\* NamedValues[Name] is std::map::operator[]: a name the map does not hold
\* is inserted with a null pointer.
NamedValuesAt(nv, Name) == IF Name \in DOMAIN nv THEN nv[Name] ELSE 0

NamedValuesTouch(nv, Name) == IF Name \in DOMAIN nv THEN nv ELSE nv @@ (Name :> 0)

MapPut(m, key, val) == [x \in DOMAIN m \cup {key} |-> IF x = key THEN val ELSE m[x]]

MapErase(m, key) == [x \in DOMAIN m \ {key} |-> m[x]]

LogErrorV(cs, Str) ==
    [v |-> NullValue, cs |-> [cs EXCEPT !.errs = Append(@, Str)]]

Crash(cs) == [v |-> NullValue, cs |-> [cs EXCEPT !.crash = TRUE]]

\* PrototypeAST::codegen: Function::Create never fails.  A function of the
\* same name already in the module keeps the name and the new declaration
\* gets a name no identifier can spell, so the module that getFunction sees
\* does not change.
PrototypeAST_codegen(P, mod) ==
    IF P.Name \in DOMAIN mod THEN mod
    ELSE mod @@ (P.Name :> [Args |-> P.Args, body |-> NullValue])

\* getFunction(Name): [found, mod], mod being TheModule afterwards.
getFunction(Name, mod, fp) ==
    IF Name \in DOMAIN mod THEN [found |-> TRUE, mod |-> mod]
    ELSE IF Name \in DOMAIN fp
    THEN [found |-> TRUE, mod |-> PrototypeAST_codegen(fp[Name], mod)]
    ELSE [found |-> FALSE, mod |-> mod]

\* The return of ForExprAST::codegen or VarExprAST::codegen with a value
\* r.v: cs.scopes keeps NamedValues as it was when the expression began to
\* be lowered (before) and as it is on return (after).
LeaveScope(kind, before, r) ==
    IF r.v = NullValue THEN r
    ELSE [v |-> r.v,
          cs |-> [r.cs EXCEPT !.scopes =
                    Append(@, [kind |-> kind, before |-> before,
                               after |-> r.cs.nv])]]

\* CreateEntryBlockAlloca
CreateEntryBlockAlloca(cs) == [cs EXCEPT !.next = @ + 1]

RECURSIVE codegen(_, _, _), CallArgs_codegen(_, _, _, _, _),
          VarNames_codegen(_, _, _, _, _, _)

NumberExprAST_codegen(e, cs, env) == [v |-> ConstantFP(e.Val), cs |-> cs]

\* if (!A) LogErrorV(...); is not followed by a return: A->getAllocatedType()
\* then reads through the null pointer and the process dies.
VariableExprAST_codegen(e, cs, env) ==
    LET A   == NamedValuesAt(cs.nv, e.Name)
        cs1 == [cs EXCEPT !.nv = NamedValuesTouch(@, e.Name)]
    IN  IF A = 0 THEN Crash(LogErrorV(cs1, "Unknown variable name").cs)
        ELSE [v |-> [k |-> "load", cell |-> A], cs |-> cs1]

UnaryExprAST_codegen(e, cs, env) ==
    LET \* UnaryExprAST::codegen from the return of getFunction on.
        UnaryExprAST_codegen_F(OperandV, F) ==
            IF ~F.found
            THEN LogErrorV([OperandV.cs EXCEPT !.mod = F.mod], "Unknown unary operator")
            ELSE [v |-> [k |-> "call", f |-> "unary" \o e.Opcode,
                         args |-> <<OperandV.v>>],
                  cs |-> [OperandV.cs EXCEPT !.mod = F.mod]]
        \* UnaryExprAST::codegen from the return of Operand->codegen() on.
        UnaryExprAST_codegen_Operand(OperandV) ==
            IF OperandV.v = NullValue THEN OperandV
            ELSE UnaryExprAST_codegen_F(OperandV,
                     getFunction("unary" \o e.Opcode, OperandV.cs.mod, env.fp))
    IN  CHOOSE Ret \in
            {UnaryExprAST_codegen_Operand(OperandV) :
                OperandV \in {codegen(e.Operand, cs, env)}} : TRUE

\* The Op == '=' branch of BinaryExprAST::codegen.  LHSE is a static_cast of
\* a non-null pointer, so it is never null and line 236 is never reached.
\* When LHS is not a VariableExprAST, LHSE->getName() reads a std::string
\* out of an object of another class: undefined behaviour, which either
\* kills the process (env.ub = "crash") or yields a name that NamedValues
\* does not hold (env.ub = "unknown").
Assign_codegen(e, cs, env) ==
    LET \* The Op == '=' branch from the return of RHS->codegen() on.
        Assign_codegen_Val(Val) ==
            LET Variable == NamedValuesAt(Val.cs.nv, e.LHS.Name)
                cs1 == [Val.cs EXCEPT !.nv = NamedValuesTouch(@, e.LHS.Name)]
            IN  IF Val.v = NullValue THEN Val
                ELSE IF e.LHS.k # "Variable"
                THEN IF env.ub = "crash" THEN Crash(Val.cs)
                     ELSE LogErrorV(Val.cs, "Unknown variable name")
                ELSE IF Variable = 0 THEN LogErrorV(cs1, "Unknown variable name")
                ELSE [v |-> [k |-> "store", cell |-> Variable, val |-> Val.v],
                      cs |-> [cs1 EXCEPT !.stores = @ + 1]]
    IN  CHOOSE Ret \in
            {Assign_codegen_Val(Val) :
                Val \in {codegen(e.RHS, cs, env)}} : TRUE

BinaryExprAST_codegen(e, cs, env) ==
    LET \* The default: branch of the switch, from the return of getFunction on.
        BinaryExprAST_codegen_F(L, R, F) ==
            \* assert(F && "binary operator not found!"), or the call through
            \* the null Function pointer when assertions are compiled out
            IF ~F.found
            THEN Crash([R.cs EXCEPT !.mod = F.mod,
                                    !.errs = Append(@, "binary operator not found!")])
            ELSE [v |-> [k |-> "call", f |-> "binary" \o e.Op, args |-> <<L.v, R.v>>],
                  cs |-> [R.cs EXCEPT !.mod = F.mod]]
        \* BinaryExprAST::codegen from the return of RHS->codegen() on.
        BinaryExprAST_codegen_R(L, R) ==
            IF L.v = NullValue \/ R.v = NullValue
            THEN [v |-> NullValue, cs |-> R.cs]
            ELSE IF e.Op \in {"+", "-", "*", "<"}
            THEN [v |-> [k |-> "fop", op |-> e.Op, L |-> L.v, R |-> R.v], cs |-> R.cs]
            ELSE BinaryExprAST_codegen_F(L, R,
                     getFunction("binary" \o e.Op, R.cs.mod, env.fp))
        \* BinaryExprAST::codegen from the return of LHS->codegen() on.
        BinaryExprAST_codegen_L(L) ==
            CHOOSE Ret \in
                {BinaryExprAST_codegen_R(L, R) :
                    R \in {codegen(e.RHS, L.cs, env)}} : TRUE
    IN  IF e.Op = "=" THEN Assign_codegen(e, cs, env)
        ELSE CHOOSE Ret \in
                 {BinaryExprAST_codegen_L(L) :
                     L \in {codegen(e.LHS, cs, env)}} : TRUE

\* The loop over Args of CallExprAST::codegen, from argument i on.
CallArgs_codegen(e, i, ArgsV, cs, env) ==
    LET \* One pass of the loop over Args, from the return of Args[i]->codegen() on.
        CallArgs_codegen_Arg(a) ==
            IF a.v = NullValue THEN a
            ELSE CallArgs_codegen(e, i + 1, Append(ArgsV, a.v), a.cs, env)
    IN  IF i > Len(e.Args)
        THEN [v |-> [k |-> "call", f |-> e.Callee, args |-> ArgsV], cs |-> cs]
        ELSE CHOOSE Ret \in
                 {CallArgs_codegen_Arg(a) :
                     a \in {codegen(e.Args[i], cs, env)}} : TRUE

CallExprAST_codegen(e, cs, env) ==
    LET \* CallExprAST::codegen from the return of getFunction on.
        CallExprAST_codegen_F(CalleeF) ==
            IF ~CalleeF.found
            THEN LogErrorV([cs EXCEPT !.mod = CalleeF.mod], "Unknown function referenced")
            ELSE IF Len(CalleeF.mod[e.Callee].Args) # Len(e.Args)
            THEN LogErrorV([cs EXCEPT !.mod = CalleeF.mod], "Incorrect # arguments passed")
            ELSE CallArgs_codegen(e, 1, <<>>, [cs EXCEPT !.mod = CalleeF.mod], env)
    IN  CallExprAST_codegen_F(getFunction(e.Callee, cs.mod, env.fp))

IfExprAST_codegen(e, cs, env) ==
    LET IfExprAST_codegen_Else(CondV, ThenV, ElseV) ==
            IF ElseV.v = NullValue THEN ElseV
            ELSE [v |-> [k |-> "if", c |-> CondV.v, t |-> ThenV.v, e |-> ElseV.v],
                  cs |-> ElseV.cs]
        IfExprAST_codegen_Then(CondV, ThenV) ==
            IF ThenV.v = NullValue THEN ThenV
            ELSE CHOOSE Ret \in
                     {IfExprAST_codegen_Else(CondV, ThenV, ElseV) :
                         ElseV \in {codegen(e.Else, ThenV.cs, env)}} : TRUE
        IfExprAST_codegen_Cond(CondV) ==
            IF CondV.v = NullValue THEN CondV
            ELSE CHOOSE Ret \in
                     {IfExprAST_codegen_Then(CondV, ThenV) :
                         ThenV \in {codegen(e.Then, CondV.cs, env)}} : TRUE
    IN  CHOOSE Ret \in
            {IfExprAST_codegen_Cond(CondV) :
                CondV \in {codegen(e.Cond, cs, env)}} : TRUE

ForExprAST_codegen(e, cs, env) ==
    LET \* ForExprAST::codegen from the return of End->codegen() on: the loop
        \* variable goes back to OldVal, or out of NamedValues.
        ForExprAST_codegen_End(Alloca, OldVal, StartVal, BodyV, StepVal, EndCond) ==
            IF EndCond.v = NullValue THEN EndCond
            ELSE [v |-> [k |-> "for", cell |-> Alloca, start |-> StartVal.v,
                         body |-> BodyV.v, step |-> StepVal.v, end |-> EndCond.v],
                  cs |-> [EndCond.cs EXCEPT
                            !.nv = IF OldVal # 0 THEN MapPut(@, e.VarName, OldVal)
                                   ELSE MapErase(@, e.VarName),
                            !.stores = @ + 1]]
        \* StepVal is what Step->codegen() returned, or the constant 1.0.
        ForExprAST_codegen_Step(Alloca, OldVal, StartVal, BodyV, StepVal) ==
            IF StepVal.v = NullValue THEN StepVal
            ELSE CHOOSE Ret \in
                     {ForExprAST_codegen_End(Alloca, OldVal, StartVal, BodyV,
                                             StepVal, EndCond) :
                         EndCond \in {codegen(e.End, StepVal.cs, env)}} : TRUE
        ForExprAST_codegen_Body(Alloca, OldVal, StartVal, BodyV) ==
            IF BodyV.v = NullValue THEN BodyV
            ELSE IF e.Step # NullAST
            THEN CHOOSE Ret \in
                     {ForExprAST_codegen_Step(Alloca, OldVal, StartVal, BodyV, StepVal) :
                         StepVal \in {codegen(e.Step, BodyV.cs, env)}} : TRUE
            ELSE ForExprAST_codegen_Step(Alloca, OldVal, StartVal, BodyV,
                                         [v |-> ConstantFP(Dbl(1)), cs |-> BodyV.cs])
        \* ForExprAST::codegen from the return of Start->codegen() on: the start
        \* value is stored, NamedValues[VarName] becomes the alloca, the body is
        \* lowered.
        ForExprAST_codegen_Start(Alloca, StartVal) ==
            IF StartVal.v = NullValue THEN StartVal
            ELSE CHOOSE Ret \in
                     {ForExprAST_codegen_Body(Alloca,
                          NamedValuesAt(StartVal.cs.nv, e.VarName), StartVal, BodyV) :
                         BodyV \in {codegen(e.Body,
                             [StartVal.cs EXCEPT !.nv = MapPut(@, e.VarName, Alloca),
                                                 !.stores = @ + 1],
                             env)}} : TRUE
    IN  LeaveScope("For", cs.nv,
            CHOOSE Ret \in
                {ForExprAST_codegen_Start(CreateEntryBlockAlloca(cs).next, StartVal) :
                    StartVal \in {codegen(e.Start, CreateEntryBlockAlloca(cs), env)}} : TRUE)

\* Lines 431-438: the value of one initializer, and whether codegen()
\* returns nullptr there.
VarInit_codegen(Init, cs, env) ==
    LET \* Lines 431-438 from the return of Init->codegen() on.
        \* if (InitVal) return nullptr; gives up on an initializer that was lowered
        \* and goes on with a null InitVal, which CreateStore then reads through:
        \* the process dies.
        VarInit_codegen_InitVal(InitVal) ==
            IF InitVal.v # NullValue
            THEN [v |-> InitVal.v, cs |-> InitVal.cs, ret |-> TRUE]
            ELSE [v |-> NullValue, cs |-> Crash(InitVal.cs).cs, ret |-> FALSE]
    IN  IF Init = NullAST
        THEN [v |-> ConstantFP(Dbl(0)), cs |-> cs, ret |-> FALSE]
        ELSE CHOOSE Ret \in
                 {VarInit_codegen_InitVal(InitVal) :
                     InitVal \in {codegen(Init, cs, env)}} : TRUE

\* for (i = 0; i != e; ++i) NamedValues[VarNames[i].first] = OldBindings[i];
RECURSIVE RestoreBindings(_, _, _, _)
RestoreBindings(nv, VarNames, OldBindings, i) ==
    IF i > Len(VarNames) THEN nv
    ELSE RestoreBindings(MapPut(nv, VarNames[i][1], OldBindings[i]),
                         VarNames, OldBindings, i + 1)

\* The loop over VarNames of VarExprAST::codegen from binding i on, then the
\* body and the restoring of the bindings.
VarNames_codegen(e, i, OldBindings, inits, cs, env) ==
    LET \* VarExprAST::codegen from the return of Body->codegen() on.
        VarNames_codegen_Body(BodyVal) ==
            IF BodyVal.v = NullValue THEN BodyVal
            ELSE [v |-> [k |-> "var", inits |-> inits, body |-> BodyVal.v],
                  cs |-> [BodyVal.cs EXCEPT !.nv =
                            RestoreBindings(@, e.VarNames, OldBindings, 1)]]
        \* One pass of the loop over VarNames from the initializer's value iv on.
        VarNames_codegen_Init(iv) ==
            LET VarName == e.VarNames[i][1]
                Alloca  == CreateEntryBlockAlloca(iv.cs).next
            IN  IF iv.ret \/ iv.cs.crash THEN [v |-> NullValue, cs |-> iv.cs]
                ELSE VarNames_codegen(e, i + 1,
                         Append(OldBindings, NamedValuesAt(iv.cs.nv, VarName)),
                         Append(inits, <<Alloca, iv.v>>),
                         [CreateEntryBlockAlloca(iv.cs) EXCEPT
                            !.nv = MapPut(@, VarName, Alloca), !.stores = @ + 1],
                         env)
    IN  IF i > Len(e.VarNames)
        THEN CHOOSE Ret \in
                 {VarNames_codegen_Body(BodyVal) :
                     BodyVal \in {codegen(e.Body, cs, env)}} : TRUE
        ELSE CHOOSE Ret \in
                 {VarNames_codegen_Init(iv) :
                     iv \in {VarInit_codegen(e.VarNames[i][2], cs, env)}} : TRUE

VarExprAST_codegen(e, cs, env) ==
    LeaveScope("Var", cs.nv, VarNames_codegen(e, 1, <<>>, <<>>, cs, env))

codegen(e, cs, env) ==
    IF cs.crash THEN [v |-> NullValue, cs |-> cs]
    ELSE CASE e.k = "Number"   -> NumberExprAST_codegen(e, cs, env)
           [] e.k = "Variable" -> VariableExprAST_codegen(e, cs, env)
           [] e.k = "Unary"    -> UnaryExprAST_codegen(e, cs, env)
           [] e.k = "Binary"   -> BinaryExprAST_codegen(e, cs, env)
           [] e.k = "Call"     -> CallExprAST_codegen(e, cs, env)
           [] e.k = "If"       -> IfExprAST_codegen(e, cs, env)
           [] e.k = "For"      -> ForExprAST_codegen(e, cs, env)
           [] e.k = "Var"      -> VarExprAST_codegen(e, cs, env)

(***************************************************************************)
(* FunctionAST::codegen.  g holds the process-wide tables bp               *)
(* (BinopPrecedence), fp (FunctionProtos), nv (NamedValues) and mod        *)
(* (TheModule); the result holds them afterwards, with ok (a Function was  *)
(* returned), crash, errs and stores.  The stack cells of the parameters   *)
(* are 1 .. number of parameters, in order.                                *)
(***************************************************************************)
RECURSIVE ArgAllocas(_, _, _)
ArgAllocas(Args, i, nv) ==
    IF i > Len(Args) THEN nv ELSE ArgAllocas(Args, i + 1, MapPut(nv, Args[i], i))

\* What FunctionAST::codegen does to BinopPrecedence when the body was not
\* lowered, without the erase of line 923.
EraseOnFailure_Keeps(bp, P) == bp

\* if (P.isBinaryOp()) BinopPrecedence.erase(P.getOperatorName());
EraseOnFailure(bp, P) ==
    IF isBinaryOp(P) THEN MapErase(bp, getOperatorName(P)) ELSE bp

\* What FunctionAST::codegen does to BinopPrecedence before the body is
\* lowered, without the assignment of line 899.
InstallPrecedence_Skips(bp, P) == bp

\* The precedence installed for every operator definition, unary ones
\* included.
InstallPrecedence_AnyOperator(bp, P) ==
    IF P.IsOperator THEN MapPut(bp, getOperatorName(P), P.Precedence) ELSE bp

\* if (P.isBinaryOp()) BinopPrecedence[P.getOperatorName()] = P.getBinaryPrecedence();
InstallPrecedence(bp, P) ==
    IF isBinaryOp(P) THEN MapPut(bp, getOperatorName(P), P.Precedence) ELSE bp

FunctionAST_codegen(F, g, ub) ==
    LET \* FunctionAST::codegen from the return of Body->codegen() on.
        FunctionAST_codegen_RetVal(P, bp1, fp1, TheFunction, RetVal) ==
            IF RetVal.v # NullValue
            THEN [ok |-> TRUE, crash |-> FALSE, bp |-> bp1, fp |-> fp1,
                  nv |-> RetVal.cs.nv,
                  mod |-> MapPut(RetVal.cs.mod, P.Name,
                                 [Args |-> TheFunction.Args, body |-> RetVal.v]),
                  errs |-> RetVal.cs.errs, stores |-> RetVal.cs.stores,
                  scopes |-> RetVal.cs.scopes]
            ELSE [ok |-> FALSE, crash |-> RetVal.cs.crash,
                  bp |-> EraseOnFailure(bp1, P), fp |-> fp1, nv |-> RetVal.cs.nv,
                  mod |-> MapErase(RetVal.cs.mod, P.Name),     \* eraseFromParent()
                  errs |-> RetVal.cs.errs, stores |-> RetVal.cs.stores,
                  scopes |-> RetVal.cs.scopes]
        \* FunctionAST::codegen from the return of getFunction on: the operator is
        \* installed, the parameters get their stack cells, the body is lowered.
        FunctionAST_codegen_F(bp1, fp1, gf) ==
            CHOOSE Ret \in
                {FunctionAST_codegen_RetVal(F.Proto, bp1, fp1, gf.mod[F.Proto.Name], RetVal) :
                    RetVal \in {codegen(F.Body,
                        [nv |-> ArgAllocas(gf.mod[F.Proto.Name].Args, 1, <<>>),
                         mod |-> gf.mod,
                         next |-> Len(gf.mod[F.Proto.Name].Args), errs |-> <<>>,
                         stores |-> Len(gf.mod[F.Proto.Name].Args), crash |-> FALSE,
                         scopes |-> <<>>],
                        [fp |-> fp1, ub |-> ub])}} : TRUE
    IN  FunctionAST_codegen_F(InstallPrecedence(g.bp, F.Proto),
            MapPut(g.fp, F.Proto.Name, F.Proto),
            getFunction(F.Proto.Name, g.mod, MapPut(g.fp, F.Proto.Name, F.Proto)))

(***************************************************************************)
(* Running the emitted code.  A run state st holds mem (the stack cells of *)
(* the running function), out (the calls of printd and putchard so far),   *)
(* fuel (the calls and loop iterations the model still follows), hang      *)
(* (the fuel ran out) and undef (an argument the caller did not pass was   *)
(* read).  J is the JIT's list of modules.                                 *)
(***************************************************************************)
FAdd(a, b) == Norm(a[1] * b[2] + b[1] * a[2], a[2] * b[2])

FSub(a, b) == Norm(a[1] * b[2] - b[1] * a[2], a[2] * b[2])

FMul(a, b) == Norm(a[1] * b[1], a[2] * b[2])

\* CreateFCmpULT then CreateUIToFP
FCmpULT(a, b) == IF a[1] * b[2] < b[1] * a[2] THEN Dbl(1) ELSE Dbl(0)

\* CreateFCmpONE(x, 0.0)
FCmpONE0(a) == a[1] # 0

JITDefines(J, name) ==
    \E i \in 1..Len(J) :
        name \in DOMAIN J[i].mod /\ J[i].mod[name].body # NullValue

\* The definition a symbol resolves to: the most recent one.
JITFind(J, name) ==
    LET i == CHOOSE i \in 1..Len(J) :
                 /\ name \in DOMAIN J[i].mod /\ J[i].mod[name].body # NullValue
                 /\ \A j \in (i + 1)..Len(J) :
                        ~(name \in DOMAIN J[j].mod /\ J[j].mod[name].body # NullValue)
    IN  J[i].mod[name]

RECURSIVE Eval(_, _, _), EvalArgs(_, _, _, _, _), EvalLoop(_, _, _),
          EvalInits(_, _, _, _)

EvalArgs(args, i, vals, st, J) ==
    LET EvalArgs_Arg(a) ==
            EvalArgs(args, i + 1, Append(vals, a.v), a.st, J)
    IN  IF i > Len(args) THEN [v |-> vals, st |-> st]
        ELSE CHOOSE Ret \in
                 {EvalArgs_Arg(a) :
                     a \in {Eval(args[i], st, J)}} : TRUE

EvalCall(ir, st, J) ==
    LET \* the return to the caller: its stack cells are its own again
        EvalCall_Ret(a, r) == [v |-> r.v, st |-> [r.st EXCEPT !.mem = a.st.mem]]
        \* The call of the function fn with the argument values a.v: parameter i
        \* is stored in stack cell i.
        EvalCall_Fn(a, fn) ==
            CHOOSE Ret \in
                {EvalCall_Ret(a, r) :
                    r \in {Eval(fn.body,
                        [a.st EXCEPT !.mem = [i \in 1..Len(fn.Args) |->
                                                IF i <= Len(a.v) THEN a.v[i] ELSE Dbl(0)],
                                     !.fuel = @ - 1,
                                     !.undef = @ \/ Len(fn.Args) > Len(a.v)],
                        J)}} : TRUE
        EvalCall_Args(a) ==
            IF a.st.hang THEN [v |-> Dbl(0), st |-> a.st]
            ELSE IF ir.f \in HostSymbols /\ ~JITDefines(J, ir.f)
            THEN [v |-> Dbl(0),
                  st |-> [a.st EXCEPT !.out = Append(@, <<ir.f, a.v[1]>>)]]
            ELSE IF a.st.fuel = 0 \/ ~JITDefines(J, ir.f)
            THEN [v |-> Dbl(0), st |-> [a.st EXCEPT !.hang = TRUE]]
            ELSE EvalCall_Fn(a, JITFind(J, ir.f))
    IN  CHOOSE Ret \in
            {EvalCall_Args(a) :
                a \in {EvalArgs(ir.args, 1, <<>>, st, J)}} : TRUE

\* Builder->CreateStore(StartVal, Alloca); Builder->CreateBr(LoopBB);
ForEnter(ir, st, J) ==
    LET ForEnter_Start(s) == [s.st EXCEPT !.mem = MapPut(@, ir.cell, s.v)]
    IN  CHOOSE Ret \in
            {ForEnter_Start(s) :
                s \in {Eval(ir.start, st, J)}} : TRUE

\* One pass through the loop block with the end condition computed after
\* the loop variable has been advanced.
ForIteration_EndAfterIncrement(ir, st, J) ==
    LET b == Eval(ir.body, st, J)
        s == Eval(ir.step, b.st, J)
        CurVar  == s.st.mem[ir.cell]
        NextVar == FAdd(CurVar, s.v)
        e == Eval(ir.end, [s.st EXCEPT !.mem = MapPut(@, ir.cell, NextVar)], J)
    IN  [again |-> FCmpONE0(e.v), st |-> e.st]

\* One pass through the loop block, lines 372-399: the body, the step, the
\* end condition, then the load, add and store of the loop variable, then
\* the conditional branch (again: back to the loop block).
ForIteration(ir, st, J) ==
    LET \* Lines 389-399: the load, add and store of the loop variable, then the
        \* conditional branch on the end condition e computed before them.
        ForIteration_End(s, e) ==
            [again |-> FCmpONE0(e.v),
             st |-> [e.st EXCEPT !.mem = MapPut(@, ir.cell,
                                                FAdd(e.st.mem[ir.cell], s.v))]]
        \* Line 385: the end condition, with the loop variable not yet advanced.
        ForIteration_Step(s) == CHOOSE Ret \in
                                    {ForIteration_End(s, e) :
                                        e \in {Eval(ir.end, s.st, J)}} : TRUE
        ForIteration_Body(b) == CHOOSE Ret \in
                                    {ForIteration_Step(s) :
                                        s \in {Eval(ir.step, b.st, J)}} : TRUE
    IN  CHOOSE Ret \in
            {ForIteration_Body(b) :
                b \in {Eval(ir.body, st, J)}} : TRUE

EvalLoop(ir, st, J) ==
    LET EvalLoop_It(it) ==
            IF it.again /\ ~it.st.hang THEN EvalLoop(ir, it.st, J)
            \* return ConstantFP::getNullValue(double)
            ELSE [v |-> Dbl(0), st |-> it.st]
    IN  IF st.hang THEN [v |-> Dbl(0), st |-> st]
        ELSE IF st.fuel = 0 THEN [v |-> Dbl(0), st |-> [st EXCEPT !.hang = TRUE]]
        ELSE CHOOSE Ret \in
                 {EvalLoop_It(it) :
                     it \in {ForIteration(ir, [st EXCEPT !.fuel = @ - 1], J)}} : TRUE

EvalInits(inits, i, st, J) ==
    LET EvalInits_Init(a) ==
            EvalInits(inits, i + 1, [a.st EXCEPT !.mem = MapPut(@, inits[i][1], a.v)], J)
    IN  IF i > Len(inits) THEN st
        ELSE CHOOSE Ret \in
                 {EvalInits_Init(a) :
                     a \in {Eval(inits[i][2], st, J)}} : TRUE

Eval(ir, st, J) ==
    LET Eval_Store(r) ==
            [v |-> r.v, st |-> [r.st EXCEPT !.mem = MapPut(@, ir.cell, r.v)]]
        Eval_FOp_R(l, r) ==
            [v |-> CASE ir.op = "+" -> FAdd(l.v, r.v)
                     [] ir.op = "-" -> FSub(l.v, r.v)
                     [] ir.op = "*" -> FMul(l.v, r.v)
                     [] OTHER       -> FCmpULT(l.v, r.v),
             st |-> r.st]
        Eval_FOp_L(l) == CHOOSE Ret \in
                             {Eval_FOp_R(l, r) :
                                 r \in {Eval(ir.R, l.st, J)}} : TRUE
        Eval_If(c) ==
            IF FCmpONE0(c.v) THEN Eval(ir.t, c.st, J) ELSE Eval(ir.e, c.st, J)
    IN  IF st.hang THEN [v |-> Dbl(0), st |-> st]
        ELSE CASE ir.k = "const" -> [v |-> ir.v, st |-> st]
               [] ir.k = "load"  -> [v |-> st.mem[ir.cell], st |-> st]
               [] ir.k = "store" -> CHOOSE Ret \in
                                        {Eval_Store(r) :
                                            r \in {Eval(ir.val, st, J)}} : TRUE
               [] ir.k = "fop"   -> CHOOSE Ret \in
                                        {Eval_FOp_L(l) :
                                            l \in {Eval(ir.L, st, J)}} : TRUE
               [] ir.k = "call"  -> EvalCall(ir, st, J)
               [] ir.k = "if"    -> CHOOSE Ret \in
                                        {Eval_If(c) :
                                            c \in {Eval(ir.c, st, J)}} : TRUE
               [] ir.k = "for"   -> EvalLoop(ir, ForEnter(ir, st, J), J)
               [] ir.k = "var"   -> Eval(ir.body, EvalInits(ir.inits, 1, st, J), J)

(***************************************************************************)
(* The JIT (include/KaleidoscopeJIT.h, which is not among the sources):    *)
(* a list of modules, each under a resource tracker; tracker 0 is the      *)
(* default tracker of the main dylib.                                      *)
(***************************************************************************)
JIT_addModule(J, mod, rt) == Append(J, [rt |-> rt, mod |-> mod])

JIT_remove(J, rt) == SelectSeq(J, LAMBDA m : m.rt # rt)

\* createResourceTracker(): a tracker no module is under
createResourceTracker(J) ==
    CHOOSE rt \in 1..(Len(J) + 1) : \A i \in 1..Len(J) : J[i].rt # rt

RECURSIVE Callees(_)
Callees(ir) ==
    CASE ir.k = "const" -> {}
      [] ir.k = "load"  -> {}
      [] ir.k = "store" -> Callees(ir.val)
      [] ir.k = "fop"   -> Callees(ir.L) \cup Callees(ir.R)
      [] ir.k = "call"  ->
           {ir.f} \cup UNION {Callees(ir.args[i]) : i \in 1..Len(ir.args)}
      [] ir.k = "if"    -> Callees(ir.c) \cup Callees(ir.t) \cup Callees(ir.e)
      [] ir.k = "for"   -> Callees(ir.start) \cup Callees(ir.body)
                           \cup Callees(ir.step) \cup Callees(ir.end)
      [] ir.k = "var"   ->
           Callees(ir.body)
           \cup UNION {Callees(ir.inits[i][2]) : i \in 1..Len(ir.inits)}

RECURSIVE Reachable(_, _)
Reachable(J, names) ==
    LET more == names \cup UNION {Callees(JITFind(J, n).body) :
                                    n \in {m \in names : JITDefines(J, m)}}
    IN  IF more = names THEN names ELSE Reachable(J, more)

\* lookup(name) succeeds when every symbol the code of name refers to, in
\* any number of calls, is defined in the JIT or is a symbol of the host.
JIT_lookup(J, name) ==
    \A n \in Reachable(J, {name}) : JITDefines(J, n) \/ n \in HostSymbols

(***************************************************************************)
(* The tables main() sets up.                                              *)
(***************************************************************************)
SeedPrecedence == ("=" :> 2) @@ ("<" :> 10) @@ ("+" :> 20) @@ ("-" :> 20) @@ ("*" :> 40)

NewParse(bp) == [pos |-> 1, bp |-> bp, errs |-> <<>>, rec |-> <<>>]

NewRun == [mem |-> <<>>, out |-> <<>>, fuel |-> MaxFuel, hang |-> FALSE,
           undef |-> FALSE]

(***************************************************************************)
(* SpecFor: the code that ForExprAST::codegen emits for                    *)
(*     for i = s, i < n in printd(i)                                       *)
(* run one block at a time, for every s and n in 0..MaxN.                  *)
(***************************************************************************)
ForTokens(s, n) ==
    <<Kw("for"), Id("i"), Op("="), Num(s), Op(","), Id("i"), Op("<"), Num(n),
      Kw("in"), Id("printd"), Op("("), Id("i"), Op(")"), Op(";")>>

ForAST(s, n) == ParseExpression(ForTokens(s, n), NewParse(SeedPrecedence)).ast

printdProto == PrototypeAST("printd", <<"x">>, FALSE, 30, "")

ForIR(s, n) ==
    codegen(ForAST(s, n),
            [nv |-> <<>>, mod |-> <<>>, next |-> 0, errs |-> <<>>, stores |-> 0,
             crash |-> FALSE, scopes |-> <<>>],
            [fp |-> ("printd" :> printdProto), ub |-> "crash"]).v

ForInit ==
    /\ forS \in 0..MaxN /\ forN \in 0..MaxN
    /\ forPc = "entry"
    /\ forSt = NewRun
    /\ LastChar = " " /\ chars = <<>> /\ source = <<>> /\ toks = <<>>
    /\ CurTok = tok_eof /\ input = <<>> /\ fed = 0
    /\ BinopPrecedence = <<>> /\ FunctionProtos = <<>> /\ NamedValues = <<>>
    /\ TheModule = <<>> /\ TheJIT = <<>> /\ status = "idle" /\ defs = <<>>
    /\ acceptedOps = {}
    /\ last = <<>>

\* the entry block: the start value is stored, control goes to the loop block
ForEntryBlock ==
    /\ forPc = "entry"
    /\ forSt' = ForEnter(ForIR(forS, forN), forSt, <<>>)
    /\ forPc' = "loop"
    /\ UNCHANGED <<forS, forN, lexVars, driverVars>>

\* the loop block, once
ForLoopBlock ==
    /\ forPc = "loop"
    /\ \E it \in {ForIteration(ForIR(forS, forN), forSt, <<>>)} :
           /\ forSt' = it.st
           /\ forPc' = IF it.again THEN "loop" ELSE "after"
    /\ UNCHANGED <<forS, forN, lexVars, driverVars>>

ForNext == ForEntryBlock \/ ForLoopBlock

SpecFor == ForInit /\ [][ForNext]_vars

(***************************************************************************)
(* The lines of input of Spec, as the tokens gettok() returns for them.    *)
(***************************************************************************)
OrBody ==
    <<Kw("if"), Id("x"), Kw("then"), Num(1), Kw("else"), Kw("if"), Id("y"),
      Kw("then"), Num(1), Kw("else"), Num(0)>>

BinaryHead(c, prec) ==
    <<Kw("def"), Kw("binary"), Op(c), prec, Op("("), Id("x"), Id("y"), Op(")")>>

\* def binary | 5 (x y) if x then 1 else if y then 1 else 0;
LineDefOr == BinaryHead("|", Num(5)) \o OrBody \o <<Op(";")>>

\* def binary | 5 (x y) !x;        (no unary ! is ever defined)
LineDefOrFails == BinaryHead("|", Num(5)) \o <<Op("!"), Id("x"), Op(";")>>

\* def binary | 1.5 (x y) x;
LineDefOrFraction == BinaryHead("|", NumTok(<<3, 2>>)) \o <<Id("x"), Op(";")>>

\* 0|1;
LineUseOr == <<Num(0), Op("|"), Num(1), Op(";")>>

\* y;
LineUnknownVariable == <<Id("y"), Op(";")>>

\* extern foo(a);
LineExtern1 == <<Kw("extern"), Id("foo"), Op("("), Id("a"), Op(")"), Op(";")>>

\* extern foo(a b);
LineExtern2 ==
    <<Kw("extern"), Id("foo"), Op("("), Id("a"), Id("b"), Op(")"), Op(";")>>

\* foo(1);
LineCallFoo == <<Id("foo"), Op("("), Num(1), Op(")"), Op(";")>>

\* extern printd(x); for i = 1, i<5 in printd(i);
LineFor ==
    <<Kw("extern"), Id("printd"), Op("("), Id("x"), Op(")"), Op(";")>>
    \o ForTokens(1, 5)

\* var a in a;
LineVar == <<Kw("var"), Id("a"), Kw("in"), Id("a"), Op(";")>>

\* var a = 1 in a;
LineVarInit ==
    <<Kw("var"), Id("a"), Op("="), Num(1), Kw("in"), Id("a"), Op(";")>>

\* var a, a in a;
LineVarTwice ==
    <<Kw("var"), Id("a"), Op(","), Id("a"), Kw("in"), Id("a"), Op(";")>>

\* var a in a = 3;
LineAssign ==
    <<Kw("var"), Id("a"), Kw("in"), Id("a"), Op("="), Num(3), Op(";")>>

\* 1 = 2;
LineAssignNumber == <<Num(1), Op("="), Num(2), Op(";")>>

\* def f(a b) a = b = 1;
LineAssignChain ==
    <<Kw("def"), Id("f"), Op("("), Id("a"), Id("b"), Op(")"), Id("a"), Op("="),
      Id("b"), Op("="), Num(1), Op(";")>>

\* def g(a) a+1; g(2)*3+1;
LineDefG ==
    <<Kw("def"), Id("g"), Op("("), Id("a"), Op(")"), Id("a"), Op("+"), Num(1),
      Op(";"), Id("g"), Op("("), Num(2), Op(")"), Op("*"), Num(3), Op("+"),
      Num(1), Op(";")>>

\* 1+2*3;
LinePrecedence == <<Num(1), Op("+"), Num(2), Op("*"), Num(3), Op(";")>>

\* 1-2*3-4;
LineSubtract ==
    <<Num(1), Op("-"), Num(2), Op("*"), Num(3), Op("-"), Num(4), Op(";")>>

\* for i = 1, 1 in 1;        (the end condition is never 0.0)
LineForever ==
    <<Kw("for"), Id("i"), Op("="), Num(1), Op(","), Num(1), Kw("in"), Num(1),
      Op(";")>>

\* , 1;        (no expression starts with a comma)
LineComma == <<Op(","), Num(1), Op(";")>>

\* def unary ! (v) if v then 0 else 1;
LineDefNot ==
    <<Kw("def"), Kw("unary"), Op("!"), Op("("), Id("v"), Op(")"), Kw("if"),
      Id("v"), Kw("then"), Num(0), Kw("else"), Num(1), Op(";")>>

\* def ;
LineDefNoName == <<Kw("def"), Op(";")>>

\* extern ;
LineExternNoName == <<Kw("extern"), Op(";")>>

\* (1;
LineNoParen == <<Op("("), Num(1), Op(";")>>

Lines == {LineDefOr, LineDefOrFails, LineDefOrFraction, LineUseOr,
          LineUnknownVariable, LineExtern1, LineExtern2, LineCallFoo, LineFor,
          LineVar, LineVarInit, LineVarTwice, LineAssign, LineAssignNumber,
          LineAssignChain, LineDefG, LinePrecedence, LineSubtract, LineForever,
          LineComma, LineDefNot, LineDefNoName, LineExternNoName,
          LineNoParen}

\* What the read of an object through a pointer of the wrong type can do.
UBOutcomes == {"crash", "unknown"}

(***************************************************************************)
(* Spec: main() and MainLoop().  One action is one iteration of the loop   *)
(* of MainLoop, its handler included.  A line of Lines is read when the    *)
(* driver asks for a token and the lines read so far are used up; a parser *)
(* that runs past the end of the lines read finds the end of the stream.   *)
(***************************************************************************)
\* The record of a step: its item, its outcome, and the state it began in.
Did(kind, ast, cg, errs) ==
    [kind |-> kind, ast |-> ast, cg |-> cg, errs |-> errs,
     bp |-> BinopPrecedence, fp |-> FunctionProtos, nv |-> NamedValues,
     cur |-> CurTok, rest |-> input, jit |-> TheJIT,
     stores |-> 0, val |-> Dbl(0), out |-> <<>>, RT |-> 0, ir |-> NullValue,
     rec |-> <<>>, scopes |-> <<>>]

Init ==
    /\ status = "start"
    /\ CurTok = tok_eof /\ input = <<>> /\ fed = 0
    /\ BinopPrecedence = SeedPrecedence
    /\ FunctionProtos = <<>> /\ NamedValues = <<>>
    /\ TheModule = <<>> /\ TheJIT = <<>> /\ defs = <<>> /\ acceptedOps = {}
    /\ last = Did("none", NullAST, "none", <<>>)
    /\ LastChar = " " /\ chars = <<>> /\ source = <<>> /\ toks = <<>>
    /\ forS = 0 /\ forN = 0 /\ forPc = "idle" /\ forSt = <<>>

Tokens == <<CurTok>> \o input

\* getchar() on an empty buffer: the user types a line, or ends the stream
ReadLine ==
    \/ \E line \in Lines :
          /\ fed < MaxItems
          /\ CurTok' = Head(line) /\ input' = Tail(line) /\ fed' = fed + 1
    \/ CurTok' = tok_eof /\ input' = <<>> /\ fed' = fed

\* The driver left one token past the place where the parser stopped.
Resume_AdvancesOne(tks, ps) ==
    IF ps.pos > Len(tks) THEN CurTok' = tok_eof /\ input' = <<>> /\ fed' = fed
    ELSE IF ps.pos < Len(tks)
    THEN /\ CurTok' = tks[ps.pos + 1]
         /\ input' = SubSeq(tks, ps.pos + 2, Len(tks))
         /\ fed' = fed
    ELSE ReadLine

\* The driver is left with CurTok where the parser stopped.
Resume(tks, ps) ==
    /\ CurTok' = CurTokAt(tks, ps)
    /\ input' = SubSeq(tks, ps.pos + 1, Len(tks))
    /\ fed' = fed

\* The driver left where the parser stopped, with no call of getNextToken().
Skip_Stays(tks, ps) == Resume(tks, ps)

\* getNextToken() called by the driver, from where the parser stopped.
Skip(tks, ps) ==
    IF ps.pos > Len(tks) THEN CurTok' = tok_eof /\ input' = <<>> /\ fed' = fed
    ELSE IF ps.pos < Len(tks) THEN Resume(tks, [ps EXCEPT !.pos = @ + 1])
    ELSE ReadLine

\* main(), lines 1064-1076
Main ==
    /\ status = "start"
    /\ ReadLine
    /\ status' = "running"
    /\ last' = Did("main", NullAST, "none", <<>>)
    /\ UNCHANGED <<BinopPrecedence, FunctionProtos, NamedValues, TheModule,
                   TheJIT, defs, acceptedOps, lexVars, forVars>>

\* case tok_eof: return;
MainLoopEof ==
    /\ status = "running" /\ CurTok.t = "eof"
    /\ status' = "exited"
    /\ last' = Did("eof", NullAST, "none", <<>>)
    /\ UNCHANGED <<CurTok, input, fed, BinopPrecedence, FunctionProtos,
                   NamedValues, TheModule, TheJIT, defs, acceptedOps, lexVars,
                   forVars>>

\* case ';': getNextToken();
MainLoopSemicolon ==
    /\ status = "running" /\ IsChar(CurTok, ";")
    /\ Skip(Tokens, NewParse(BinopPrecedence))
    /\ last' = Did("semicolon", NullAST, "none", <<>>)
    /\ UNCHANGED <<status, BinopPrecedence, FunctionProtos, NamedValues,
                   TheModule, TheJIT, defs, acceptedOps, lexVars, forVars>>

\* The process dies inside a handler: nothing of its state is left to see.
Dies(how, kind, ast, errs) ==
    /\ status' = how
    /\ last' = Did(kind, ast, how, errs)
    /\ UNCHANGED <<CurTok, input, fed, BinopPrecedence, FunctionProtos,
                   NamedValues, TheModule, TheJIT, defs, acceptedOps>>

HandleDefinition ==
    /\ status = "running" /\ CurTok.t = "def"
    /\ \E FnAST \in {ParseDefinition(Tokens, NewParse(BinopPrecedence))} :
           IF FnAST.ast = NullAST
           THEN /\ Skip(Tokens, FnAST.ps)
                /\ BinopPrecedence' = FnAST.ps.bp
                /\ last' = Did("def", NullAST, "none", FnAST.ps.errs)
                /\ UNCHANGED <<status, FunctionProtos, NamedValues, TheModule,
                               TheJIT, defs, acceptedOps>>
           ELSE \E ub \in UBOutcomes :
                \E FnIR \in {FunctionAST_codegen(FnAST.ast,
                                [bp |-> FnAST.ps.bp, fp |-> FunctionProtos,
                                 nv |-> NamedValues, mod |-> TheModule], ub)} :
                    IF FnIR.crash
                    THEN Dies("crashed", "def", FnAST.ast, FnIR.errs)
                    ELSE /\ Resume(Tokens, FnAST.ps)
                         /\ BinopPrecedence' = FnIR.bp
                         /\ FunctionProtos' = FnIR.fp
                         /\ NamedValues' = FnIR.nv
                         /\ TheModule' = IF FnIR.ok THEN <<>> ELSE FnIR.mod
                         /\ TheJIT' = IF FnIR.ok
                                      THEN JIT_addModule(TheJIT, FnIR.mod, 0)
                                      ELSE TheJIT
                         /\ defs' = IF FnIR.ok THEN Append(defs, FnIR.mod) ELSE defs
                         /\ acceptedOps' =
                                IF ~isBinaryOp(FnAST.ast.Proto) THEN acceptedOps
                                ELSE IF FnIR.ok
                                THEN acceptedOps \cup {FnAST.ast.Proto.OpChar}
                                ELSE acceptedOps \ {FnAST.ast.Proto.OpChar}
                         /\ last' = [Did("def", FnAST.ast,
                                         IF FnIR.ok THEN "ok" ELSE "fail",
                                         FnIR.errs)
                                     EXCEPT !.stores = FnIR.stores,
                                            !.rec = FnAST.ps.rec,
                                            !.scopes = FnIR.scopes]
                         /\ UNCHANGED status
    /\ UNCHANGED <<lexVars, forVars>>

\* FunctionProtos of HandleExtern when a name that is registered keeps its
\* first prototype.
RegisterExtern_KeepsFirst(fp, P) ==
    IF P.Name \in DOMAIN fp THEN fp ELSE MapPut(fp, P.Name, P)

\* FunctionProtos[ProtoAST->getName()] = std::move(ProtoAST);
RegisterExtern(fp, P) == MapPut(fp, P.Name, P)

HandleExtern ==
    /\ status = "running" /\ CurTok.t = "extern"
    /\ \E ProtoAST \in {ParseExtern(Tokens, NewParse(BinopPrecedence))} :
           IF ProtoAST.ast = NullAST
           THEN /\ Skip(Tokens, ProtoAST.ps)
                /\ last' = Did("extern", NullAST, "none", ProtoAST.ps.errs)
                /\ UNCHANGED <<FunctionProtos, TheModule>>
           ELSE /\ Resume(Tokens, ProtoAST.ps)
                \* ProtoAST->codegen() never returns null
                /\ TheModule' = PrototypeAST_codegen(ProtoAST.ast, TheModule)
                /\ FunctionProtos' = RegisterExtern(FunctionProtos, ProtoAST.ast)
                /\ last' = Did("extern", ProtoAST.ast, "ok", ProtoAST.ps.errs)
    /\ UNCHANGED <<status, BinopPrecedence, NamedValues, TheJIT, defs,
                   acceptedOps, lexVars, forVars>>

\* Lines 1000-1008 without the RT->remove() of line 1008.
RunTopLevelExpr_NoRemove(J, mod) ==
    LET RT == createResourceTracker(J)
        J1 == JIT_addModule(J, mod, RT)
        r  == Eval(mod["__anon_expr"].body, NewRun, J1)
    IN  IF ~JIT_lookup(J1, "__anon_expr")
        THEN [how |-> "fatal", J |-> J1, val |-> Dbl(0), out |-> <<>>, RT |-> RT]
        ELSE IF r.st.hang
        THEN [how |-> "hung", J |-> J1, val |-> Dbl(0), out |-> r.st.out, RT |-> RT]
        ELSE [how |-> "ok", J |-> J1, val |-> r.v, out |-> r.st.out, RT |-> RT]

\* Lines 1000-1008: the module goes to the JIT under a new resource tracker,
\* __anon_expr is looked up (ExitOnErr ends the process when that fails) and
\* called once, and the tracker is removed.
RunTopLevelExpr(J, mod) ==
    LET \* Lines 1006-1008: the call of __anon_expr returned r (or never returns),
        \* then RT->remove().
        RunTopLevelExpr_Call(J1, RT, r) ==
            IF r.st.hang
            THEN [how |-> "hung", J |-> J1, val |-> Dbl(0), out |-> r.st.out, RT |-> RT]
            ELSE [how |-> "ok", J |-> JIT_remove(J1, RT), val |-> r.v,
                  out |-> r.st.out, RT |-> RT]
        \* Line 1005: ExitOnErr(TheJIT->lookup("__anon_expr")), then the call.
        RunTopLevelExpr_Added(J1, RT) ==
            IF ~JIT_lookup(J1, "__anon_expr")
            THEN [how |-> "fatal", J |-> J1, val |-> Dbl(0), out |-> <<>>, RT |-> RT]
            ELSE CHOOSE Ret \in
                     {RunTopLevelExpr_Call(J1, RT, r) :
                         r \in {Eval(mod["__anon_expr"].body, NewRun, J1)}} : TRUE
        \* Lines 1001-1002: addModule(TSM, RT)
        RunTopLevelExpr_RT(RT) ==
            CHOOSE Ret \in
                {RunTopLevelExpr_Added(J1, RT) :
                    J1 \in {JIT_addModule(J, mod, RT)}} : TRUE
    IN  RunTopLevelExpr_RT(createResourceTracker(J))

\* if (FnIR) is false: nothing is run
NotRun == [how |-> "none", J |-> TheJIT, val |-> Dbl(0), out |-> <<>>, RT |-> 0]

HandleTopLevelExpression ==
    /\ status = "running"
    /\ CurTok.t \notin {"eof", "def", "extern"} /\ ~IsChar(CurTok, ";")
    /\ \E FnAST \in {ParseTopLevelExpr(Tokens, NewParse(BinopPrecedence))} :
           IF FnAST.ast = NullAST
           THEN /\ Skip(Tokens, FnAST.ps)
                /\ BinopPrecedence' = FnAST.ps.bp
                /\ last' = Did("expr", NullAST, "none", FnAST.ps.errs)
                /\ UNCHANGED <<status, FunctionProtos, NamedValues, TheModule,
                               TheJIT, defs, acceptedOps>>
           ELSE \E ub \in UBOutcomes :
                \E FnIR \in {FunctionAST_codegen(FnAST.ast,
                                [bp |-> FnAST.ps.bp, fp |-> FunctionProtos,
                                 nv |-> NamedValues, mod |-> TheModule], ub)} :
                \E run \in {IF FnIR.ok THEN RunTopLevelExpr(TheJIT, FnIR.mod)
                             ELSE NotRun} :
                    IF FnIR.crash
                    THEN Dies("crashed", "expr", FnAST.ast, FnIR.errs)
                    ELSE IF FnIR.ok /\ run.how # "ok"
                    THEN Dies(run.how, "expr", FnAST.ast, FnIR.errs)
                    ELSE /\ Resume(Tokens, FnAST.ps)
                         /\ BinopPrecedence' = FnIR.bp
                         /\ FunctionProtos' = FnIR.fp
                         /\ NamedValues' = FnIR.nv
                         /\ TheModule' = IF FnIR.ok THEN <<>> ELSE FnIR.mod
                         /\ TheJIT' = IF FnIR.ok THEN run.J ELSE TheJIT
                         /\ last' = IF FnIR.ok
                                    THEN [Did("expr", FnAST.ast, "ok", FnIR.errs)
                                          EXCEPT !.stores = FnIR.stores,
                                                 !.rec = FnAST.ps.rec,
                                                 !.scopes = FnIR.scopes,
                                                 !.val = run.val,
                                                 !.out = run.out,
                                                 !.RT = run.RT,
                                                 !.ir = FnIR.mod["__anon_expr"].body]
                                    ELSE [Did("expr", FnAST.ast, "fail", FnIR.errs)
                                          EXCEPT !.stores = FnIR.stores,
                                                 !.rec = FnAST.ps.rec,
                                            !.scopes = FnIR.scopes]
                         /\ UNCHANGED <<status, defs, acceptedOps>>
    /\ UNCHANGED <<lexVars, forVars>>

Next ==
    \/ Main
    \/ MainLoopEof
    \/ MainLoopSemicolon
    \/ HandleDefinition
    \/ HandleExtern
    \/ HandleTopLevelExpression

Spec == Init /\ [][Next]_vars

\* MainLoop is a while (1): as long as it has not returned and the process
\* lives, the next iteration is taken.
SpecLive == Spec /\ WF_vars(Next)

(***************************************************************************)
(* The claims.  Item is the input the last step began with: the tokens of  *)
(* the item it handled come first.                                         *)
(***************************************************************************)
Item == <<last.cur>> \o last.rest

StartsWith(line) == Len(Item) >= Len(line) /\ SubSeq(Item, 1, Len(line)) = line

\* the last step handled this line as a top-level expression
IsExprOf(line) == last.kind = "expr" /\ last.ast # NullAST /\ StartsWith(line)

\* the last step handled a def binary that parsed
DefBinary ==
    last.kind = "def" /\ last.ast # NullAST /\ isBinaryOp(last.ast.Proto)

\* PREC as the definition spells it (30 when it spells none)
PrecLiteral == IF Item[4].t = "num" THEN Item[4].n ELSE Dbl(30)

Finished == status \in {"running", "exited"}

(* C1: no input aborts the process: whatever the lines read, the process   *)
(* is never killed by a fault; a failure abandons only the current item.   *)
C1_NoInputAborts == status # "crashed"

(* C2, as stated: after a def binary OP PREC whose codegen succeeds the    *)
(* operator table maps OP to PREC itself; after one whose codegen fails    *)
(* the table has no entry for OP.                                          *)
C2_AsStated ==
    DefBinary /\ Finished =>
        /\ last.cg = "ok" =>
              /\ last.ast.Proto.OpChar \in DOMAIN BinopPrecedence
              /\ Dbl(BinopPrecedence[last.ast.Proto.OpChar]) = PrecLiteral
        /\ last.cg = "fail" => last.ast.Proto.OpChar \notin DOMAIN BinopPrecedence

(* C2, amended: after a def binary OP PREC whose codegen succeeds the      *)
(* operator table maps OP to PREC with its fraction dropped (to PREC when  *)
(* PREC is a whole number, to 30 when no PREC is written); after one whose *)
(* codegen fails the table has no entry for OP.                            *)
C2_OperatorTableAfterBinaryDef ==
    DefBinary /\ Finished =>
        /\ last.cg = "ok" =>
              /\ last.ast.Proto.OpChar \in DOMAIN BinopPrecedence
              /\ BinopPrecedence[last.ast.Proto.OpChar] = ToUnsigned(PrecLiteral)
        /\ last.cg = "fail" => last.ast.Proto.OpChar \notin DOMAIN BinopPrecedence

\* def binary | 1.5 (x y) x; has been accepted and the table maps | to 1
C2_Witness ==
    /\ DefBinary /\ last.cg = "ok" /\ PrecLiteral = <<3, 2>>
    /\ BinopPrecedence["|"] = 1

\* the last step handled an extern of a name the registry already held
Redeclared ==
    /\ last.kind = "extern" /\ last.ast # NullAST
    /\ last.ast.Name \in DOMAIN last.fp

SameArity == Len(last.ast.Args) = Len(last.fp[last.ast.Name].Args)

(* C3, as stated: an extern that re-declares NAME with the number of       *)
(* parameters of the registered prototype is accepted; with another number *)
(* of parameters it is rejected with a diagnostic and the registry keeps   *)
(* the prototype it held.                                                  *)
C3_AsStated ==
    Redeclared =>
        IF SameArity THEN last.cg = "ok" /\ last.errs = <<>>
        ELSE /\ last.errs # <<>>
             /\ FunctionProtos[last.ast.Name] = last.fp[last.ast.Name]

(* C3, amended: an extern that re-declares NAME is accepted without a      *)
(* diagnostic whatever its number of parameters, and the registry then     *)
(* holds the prototype declared last.                                      *)
C3_ExternRedeclarationSupersedes ==
    Redeclared =>
        /\ last.cg = "ok" /\ last.errs = <<>>
        /\ FunctionProtos[last.ast.Name] = last.ast
        /\ \A n \in DOMAIN last.fp \ {last.ast.Name} :
              n \in DOMAIN FunctionProtos /\ FunctionProtos[n] = last.fp[n]

\* extern foo(a b); after extern foo(a); the registry holds foo(a b)
C3_Witness ==
    /\ Redeclared /\ ~SameArity
    /\ Len(FunctionProtos[last.ast.Name].Args) = 2
    /\ Len(last.fp[last.ast.Name].Args) = 1

\* the arguments of the calls of printd, in order
Printed(st) == [i \in 1..Len(st.out) |-> st.out[i][2]]

(* C4, as stated: for i = s, i<n in body with s < n and the default step   *)
(* runs its body n - s times (four times for s = 1, n = 5).                *)
C4_AsStated ==
    forPc = "after" /\ forS < forN => Len(forSt.out) = forN - forS

(* C4, amended: for i = s, i<n in body with the default step runs its body *)
(* n - s + 1 times when s < n (five times for s = 1, n = 5: i = 1..5) and  *)
(* once when s >= n, because the end condition is computed before the loop *)
(* variable is advanced; the For expression evaluates to 0.                *)
C4_ForBodyRuns ==
    forPc = "after" =>
        /\ Len(forSt.out) = IF forS < forN THEN forN - forS + 1 ELSE 1
        /\ Printed(forSt) = [i \in 1..Len(forSt.out) |-> Dbl(forS + i - 1)]
        /\ Eval(ForIR(forS, forN), NewRun, <<>>).v = Dbl(0)
        /\ Eval(ForIR(forS, forN), NewRun, <<>>).st.out = forSt.out

\* for i = 1, i<5 in printd(i) is over and has printed 1, 2, 3, 4, 5
C4_Witness ==
    /\ forPc = "after" /\ forS = 1 /\ forN = 5
    /\ Printed(forSt) = <<Dbl(1), Dbl(2), Dbl(3), Dbl(4), Dbl(5)>>

\* a Var expression whose initializers are numbers or omitted and whose
\* body is one of the names it declares: all of them lower
SimpleVar(e) ==
    /\ e.k = "Var"
    /\ \A i \in 1..Len(e.VarNames) : e.VarNames[i][2].k \in {"null", "Number"}
    /\ e.Body.k = "Variable"
    /\ \E i \in 1..Len(e.VarNames) : e.VarNames[i][1] = e.Body.Name

\* the value the body of a SimpleVar has: that of the last binding of its name
SimpleVarValue(e) ==
    LET i == CHOOSE i \in 1..Len(e.VarNames) :
                 /\ e.VarNames[i][1] = e.Body.Name
                 /\ \A j \in (i + 1)..Len(e.VarNames) :
                        e.VarNames[j][1] # e.Body.Name
    IN  IF e.VarNames[i][2].k = "Number" THEN e.VarNames[i][2].Val ELSE Dbl(0)

(* C5: lowering a Var expression whose initializers and body all lower     *)
(* succeeds, and the value of the Var expression is the value of its body, *)
(* each name holding the value of its initializer (0.0 when omitted).      *)
C5_VarLowers ==
    last.kind = "expr" /\ last.ast # NullAST /\ SimpleVar(last.ast.Body) =>
        /\ last.cg = "ok"
        /\ last.val = SimpleVarValue(last.ast.Body)

(* C6: lowering a Variable whose name has no binding fails: the error is   *)
(* reported, no load is emitted, and only the current item is abandoned.   *)
C6_UnboundVariableFails ==
    IsExprOf(LineUnknownVariable) =>
        /\ last.cg = "fail"
        /\ last.errs = <<"Unknown variable name">>
        /\ status = "running"

(* C7: lowering a Binary = whose left operand is not a Variable fails with *)
(* a diagnostic and emits no store; the process goes on.                   *)
C7_AssignToNonVariableFails ==
    /\ IsExprOf(LineAssignNumber) =>
          last.cg = "fail" /\ last.errs # <<>> /\ last.stores = 0
    /\ (last.kind = "def" /\ StartsWith(LineAssignChain)) =>
          last.cg = "fail" /\ last.errs # <<>> /\ status = "running"

\* the modules among defs that define binary|
BinaryOrDefs == SelectSeq(defs, LAMBDA m : "binary|" \in DOMAIN m)

(* C8, as stated: once a def binary | has been accepted, a later top-level *)
(* expression 0|1 is parsed as a Binary node with operator |.              *)
C8_AsStated ==
    IsExprOf(LineUseOr) /\ BinaryOrDefs # <<>> =>
        last.ast.Body = BinaryExprAST("|", NumberExprAST(Dbl(0)),
                                      NumberExprAST(Dbl(1)))

(* C8, amended: while the latest def binary OP was accepted (a later def   *)
(* binary OP whose codegen fails takes OP out of the operator table        *)
(* again), a top-level expression a OP b is parsed as a Binary node with   *)
(* operator OP, is lowered to a call of binary+OP on (a, b) and evaluates  *)
(* to the result of that call; after def binary | 5 (x y) if x then 1 else *)
(* if y then 1 else 0; as the only definition of binary|, 0|1 evaluates    *)
(* to 1.                                                                   *)
C8_UserBinaryOperator ==
    IsExprOf(LineUseOr) /\ "|" \in acceptedOps =>
        /\ last.ast.Body = BinaryExprAST("|", NumberExprAST(Dbl(0)),
                                         NumberExprAST(Dbl(1)))
        /\ last.cg = "ok"
        /\ last.ir = [k |-> "call", f |-> "binary|",
                      args |-> <<ConstantFP(Dbl(0)), ConstantFP(Dbl(1))>>]
        /\ last.val = EvalCall(last.ir, NewRun, TheJIT).v
        /\ (Len(BinaryOrDefs) = 1 /\ BinaryOrDefs[1]["binary|"].body.k = "if")
              => last.val = Dbl(1)

\* 0|1 has been evaluated to 1 by the if-then-else definition of binary|
C8_Witness ==
    /\ IsExprOf(LineUseOr) /\ "|" \in acceptedOps /\ last.cg = "ok"
    /\ Len(BinaryOrDefs) = 1 /\ BinaryOrDefs[1]["binary|"].body.k = "if"
    /\ last.val = Dbl(1)

\* cs without its comments, a comment being # up to, not including, the
\* next character of ends or the end of the stream
RECURSIVE StripComments(_, _, _)
StripComments(cs, ends, inComment) ==
    IF cs = <<>> THEN <<>>
    ELSE IF inComment
    THEN IF Head(cs) \in ends
         THEN <<Head(cs)>> \o StripComments(Tail(cs), ends, FALSE)
         ELSE StripComments(Tail(cs), ends, TRUE)
    ELSE IF Head(cs) = "#" THEN StripComments(Tail(cs), ends, TRUE)
    ELSE <<Head(cs)>> \o StripComments(Tail(cs), ends, FALSE)

(* C9, as stated: the tokens of an input are the tokens of the input with  *)
(* every comment, # up to but not including the next newline (line feed)   *)
(* or the end of the stream, replaced by nothing.                          *)
C9_AsStated ==
    LexDone => toks = Lex(StripComments(source, {"\n"}, FALSE))

(* C9, amended: the tokens of an input are the tokens of the input with    *)
(* every comment replaced by nothing, a comment being # up to but not      *)
(* including the next line feed or carriage return or the end of the       *)
(* stream; whitespace and comments produce no token, and a comment that    *)
(* runs to the end of the stream is followed by the end-of-input token.    *)
C9_CommentsProduceNoToken ==
    LexDone =>
        /\ toks = Lex(StripComments(source, {"\n", "\r"}, FALSE))
        /\ \A i \in 1..Len(toks) : toks[i].t = "op" => toks[i].s \notin {"#", " ", "\n", "\r"}
        /\ StripComments(source, {"\n", "\r"}, FALSE) = <<>> => toks = <<tok_eof>>

\* a comment that a carriage return ends has been skipped and the
\* identifier after it returned
C9_Witness ==
    /\ LexDone
    /\ source = <<"#", "i", "\r", "n">>
    /\ toks = <<Id("n"), tok_eof>>

(* C10: once the handling of an item has finished, the JIT holds no module *)
(* that defines __anon_expr, the module of every accepted def is still     *)
(* held by the JIT, and the module of an evaluated expression went in      *)
(* under a resource tracker that no module was under.                      *)
C10_AnonModulesRemoved ==
    Finished =>
        /\ \A i \in 1..Len(TheJIT) : "__anon_expr" \notin DOMAIN TheJIT[i].mod
        /\ \A i \in 1..Len(defs) :
              \E j \in 1..Len(TheJIT) : TheJIT[j].mod = defs[i] /\ TheJIT[j].rt = 0
        /\ (last.kind = "expr" /\ last.cg = "ok") =>
              /\ \A i \in 1..Len(last.jit) : last.jit[i].rt # last.RT
              /\ TheJIT = last.jit

\* g(2)*3+1 has been evaluated to 10 and the JIT holds the module of def g
C10_Witness ==
    /\ status = "running" /\ last.kind = "expr" /\ last.cg = "ok"
    /\ defs # <<>> /\ Len(TheJIT) = Len(defs)
    /\ "g" \in DOMAIN TheJIT[1].mod /\ last.val = Dbl(10)

(***************************************************************************)
(* C11, as stated: every recursive call of ParseBinOpRHS that extends a    *)
(* right operand is made with the minimum precedence of the caller plus    *)
(* one.                                                                    *)
(***************************************************************************)
C11_AsStated ==
    \A i \in 1..Len(last.rec) : last.rec[i].arg = last.rec[i].ExprPrec + 1

(***************************************************************************)
(* C11: in ParseBinOpRHS, after an operator and its right operand have     *)
(* been consumed, the right operand is extended by a recursive call exactly*)
(* when the operator that follows has strictly greater precedence than the *)
(* consumed operator, and the minimum precedence of that call is the       *)
(* precedence of the consumed operator plus one; so an operator of the     *)
(* same precedence as the consumed one is folded to the left:              *)
(* 1-2*3-4 is (1-(2*3))-4 and evaluates to -9.                             *)
(***************************************************************************)
C11_RecursesAboveConsumedOperator ==
    /\ \A i \in 1..Len(last.rec) :
          /\ last.rec[i].TokPrec < last.rec[i].NextPrec
          /\ last.rec[i].arg = last.rec[i].TokPrec + 1
    /\ IsExprOf(LineSubtract) =>
          /\ last.ast.Body =
                BinaryExprAST("-",
                    BinaryExprAST("-", NumberExprAST(Dbl(1)),
                        BinaryExprAST("*", NumberExprAST(Dbl(2)),
                                      NumberExprAST(Dbl(3)))),
                    NumberExprAST(Dbl(4)))
          /\ last.cg = "ok" /\ last.val = Dbl(-9)

\* 1-2*3-4 has been parsed with one recursive call, made below the top level
C11_Witness ==
    /\ IsExprOf(LineSubtract) /\ last.cg = "ok"
    /\ Len(last.rec) = 1
    /\ last.rec[1].ExprPrec = 0 /\ last.rec[1].TokPrec = 20
    /\ last.rec[1].NextPrec = 40

(***************************************************************************)
(* C12: after the successful lowering of any For or Var expression, the    *)
(* named-value scope resolves every name to the same stack cell, or leaves *)
(* it unbound, exactly as it did immediately before that expression was    *)
(* lowered.  A name that NamedValues maps to the null pointer is unbound.  *)
(***************************************************************************)
C12_ScopeRestored ==
    \A i \in 1..Len(last.scopes) :
        \A Name \in DOMAIN last.scopes[i].before \cup DOMAIN last.scopes[i].after :
            NamedValuesAt(last.scopes[i].after, Name)
                = NamedValuesAt(last.scopes[i].before, Name)

\* The parser state in which the parser of the last item stopped:
\* Item[Stopped] is the token it left in CurTok.
Stopped ==
    CASE last.kind = "def"    -> ParseDefinition(Item, NewParse(last.bp)).ps.pos
      [] last.kind = "extern" -> ParseExtern(Item, NewParse(last.bp)).ps.pos
      [] last.kind = "expr"   -> ParseTopLevelExpr(Item, NewParse(last.bp)).ps.pos
      [] OTHER                -> 1

\* The driver called getNextToken() n times (0 or 1) after the parser
\* stopped: the tokens ahead are those after the place the parser stopped
\* at, or, past the end of the lines read so far, a new line or the end of
\* the stream.
AdvancedBy(n) ==
    IF Stopped + n <= Len(Item)
    THEN Tokens = SubSeq(Item, Stopped + n, Len(Item))
    ELSE IF n = 0 THEN Tokens = <<tok_eof>>
    ELSE Tokens \in Lines \cup {<<tok_eof>>}

\* the last step parsed a top-level item and its codegen returned null
CodegenFailed == last.kind \in {"def", "extern", "expr"} /\ last.cg = "fail"

\* the last step failed to parse a top-level item
ParseFailed ==
    last.kind \in {"def", "extern", "expr"} /\ last.ast = NullAST

(***************************************************************************)
(* C13, as stated: when the codegen of a parsed top-level item fails, the  *)
(* driver advances exactly one token before it resumes dispatch, as it     *)
(* does when the parse of the item fails.                                  *)
(***************************************************************************)
C13_AsStated == CodegenFailed => AdvancedBy(1)

(***************************************************************************)
(* C13: when the codegen of a parsed definition or anonymous expression    *)
(* fails, the driver advances no token: dispatch resumes at the token the  *)
(* parser stopped at, the one that follows the item.  The codegen of a     *)
(* parsed extern does not fail.  When the parse of a top-level item fails, *)
(* the driver advances exactly one token.                                  *)
(***************************************************************************)
C13_NoAdvanceAfterCodegenFailure ==
    /\ CodegenFailed => last.kind # "extern" /\ AdvancedBy(0)
    /\ ParseFailed => AdvancedBy(1)

\* def binary | 5 (x y) !x; was parsed, its body was not lowered, and the
\* driver is at the ';' that ends it
C13_Witness ==
    /\ CodegenFailed /\ last.kind = "def" /\ StartsWith(LineDefOrFails)
    /\ status = "running" /\ IsChar(CurTok, ";")
    /\ Stopped = Len(LineDefOrFails)

\* the main loop has returned
Returned == status = "exited"

\* ExitOnErr has ended the process (a fatal condition of the JIT)
Fatal == status = "fatal"

\* A step of the main loop that does not return reads at least one token:
\* a new line is read, or fewer tokens of the lines read so far are ahead,
\* or the end of the stream is reached.
ConsumesToken ==
    (status = "running" /\ status' = "running") =>
        \/ fed' > fed
        \/ fed' = fed /\ Len(input') < Len(input)
        \/ CurTok.t # "eof" /\ CurTok'.t = "eof"

\* once gettok() has returned tok_eof it returns tok_eof on every later call
EofStays == (status = "running" /\ CurTok.t = "eof") => CurTok'.t = "eof"

(***************************************************************************)
(* C14, as stated: on every finite input the driver comes to an end; the   *)
(* main loop sees end-of-input and returns unless the process has ended    *)
(* before (a fatal condition, or a fault while an item is lowered).        *)
(***************************************************************************)
C14_AsStated == <>(Returned \/ Fatal \/ status = "crashed")

(***************************************************************************)
(* C14: on every finite input the main loop eventually sees end-of-input   *)
(* and returns, unless the process ends first (a fatal condition, or a     *)
(* fault while an item is lowered) or the evaluation of a top-level        *)
(* expression never returns.  Every main-loop iteration that does not      *)
(* return consumes at least one token, and once the lexer has returned     *)
(* end-of-input it returns end-of-input on every later call.               *)
(***************************************************************************)
C14_DriverStops ==
    /\ [][ConsumesToken /\ EofStays]_vars
    /\ <>(Returned \/ Fatal \/ status \in {"crashed", "hung"})

\* the main loop has returned at end-of-input after it read two lines or
\* more and accepted a definition
C14_Witness ==
    /\ Returned /\ last.kind = "eof" /\ CurTok.t = "eof" /\ input = <<>>
    /\ fed >= 2 /\ defs # <<>>


(***************************************************************************)
(* C15: a definition whose body fails to lower leaves the prototype        *)
(* registry FunctionProtos exactly as it was before the definition was     *)
(* handled.                                                                *)
(***************************************************************************)
C15_RegistryUnchangedOnFailure ==
    (last.kind = "def" /\ last.ast # NullAST /\ last.cg = "fail") =>
        FunctionProtos = last.fp


BuiltinOps == {"=", "<", "+", "-", "*"}

\* the step lowered a Binary node whose operator no prototype stands for
AssertionFailed ==
    \E i \in 1..Len(last.errs) : last.errs[i] = "binary operator not found!"

(***************************************************************************)
(* C16: the assertion F && "binary operator not found!" never fails: every *)
(* character other than = < + - * that has a positive precedence in        *)
(* BinopPrecedence has a prototype named binary+character in               *)
(* FunctionProtos, when an item has been handled and when its body is      *)
(* lowered, and no step lowers a Binary node whose function is not found.  *)
(***************************************************************************)
C16_BinaryOperatorFound ==
    /\ \A c \in DOMAIN BinopPrecedence :
           (BinopPrecedence[c] > 0 /\ c \notin BuiltinOps) =>
               ("binary" \o c) \in DOMAIN FunctionProtos
    /\ \A c \in DOMAIN last.bp :
           (last.bp[c] > 0 /\ c \notin BuiltinOps) =>
               ("binary" \o c) \in DOMAIN last.fp
    /\ ~AssertionFailed

\* `0 | 1;` was parsed into a Binary node of the user operator | and
\* lowered to a call of binary|, after a definition of | was accepted
C16_Witness ==
    /\ IsExprOf(LineUseOr) /\ last.cg = "ok"
    /\ last.ast.Body.k = "Binary" /\ last.ast.Body.Op = "|"
    /\ last.bp["|"] > 0 /\ "binary|" \in DOMAIN last.fp
    /\ last.ir.k = "call" /\ last.ir.f = "binary|"

=============================================================================
